---- MODULE Spec2Model ----
(***************************************************************************)
(* cf-cli: the dual-mode output / error protocol (src/output.rs), the      *)
(* entry point (src/main.rs) and the command handlers (src/commands/*.rs). *)
(*                                                                         *)
(* Option<T> is modelled as a sequence: None is <<>>, Some(x) is <<x>>.    *)
(* A struct serialized by serde (Event, PebbleError) is a sequence of      *)
(* <<key, value>> pairs in field order; a serde_json::Value object built   *)
(* by json! is a record (an unordered map).                                *)
(***************************************************************************)
EXTENDS Integers, Sequences, FiniteSets, TLC

VARIABLES
    cli,      \* the parsed command line (Cli), fixed for one invocation
    out,      \* the Output channel: [agent_mode |-> BOOLEAN], or NoOutput before Output::new
    pc,       \* position of the process
    stdout,   \* lines written to standard output
    stderr,   \* lines written to standard error
    events,   \* the calls made on the Output channel, in order
    status,   \* process exit code, Running while the process is alive
    result,   \* main's result: what the dispatched handler returned
    err,      \* a PebbleError value being built by a caller (builder chain)
    chain,    \* the factory call and the with_op/with_details calls that built err
    env,      \* the environment the handlers read: .env file, variables, registry.json, remote Caddyfile
    local     \* the locals of the running handler that live across its await points

vars == <<cli, out, pc, stdout, stderr, events, status, result, err, chain, env, local>>

-----------------------------------------------------------------------------
(* Bounds of the model *)

MaxCalls == 2      \* channel calls made by the free caller of SpecChan
MaxChain == 3      \* builder calls (factory included) applied to one error
MaxInvocations == 2  \* runs of the program in one session

-----------------------------------------------------------------------------
(* Option *)

None == <<>>
Some(x) == <<x>>

Running == -1
NoOutput == [constructed |-> FALSE]
NoErr == [built |-> FALSE]

-----------------------------------------------------------------------------
(* output.rs: PebbleError and its factories *)

SCHEMA_VERSION == 1

net(code, message) ==
    [code |-> code, cat |-> "net", op |-> None, retryable |-> TRUE,
     retry_after_s |-> Some(5), fix |-> <<"proxy", "wait">>,
     message |-> Some(message), trace_id |-> None, details |-> None]

input(code, message) ==
    [code |-> code, cat |-> "in", op |-> None, retryable |-> FALSE,
     retry_after_s |-> None, fix |-> <<"param">>,
     message |-> Some(message), trace_id |-> None, details |-> None]

auth(code, message) ==
    [code |-> code, cat |-> "auth", op |-> None, retryable |-> FALSE,
     retry_after_s |-> None, fix |-> <<"auth">>,
     message |-> Some(message), trace_id |-> None, details |-> None]

ext_without_retry_after(code, message) ==
    [code |-> code, cat |-> "ext", op |-> None, retryable |-> TRUE,
     retry_after_s |-> None, fix |-> <<"wait", "report">>,
     message |-> Some(message), trace_id |-> None, details |-> None]

ext(code, message) ==
    [code |-> code, cat |-> "ext", op |-> None, retryable |-> TRUE,
     retry_after_s |-> Some(5), fix |-> <<"wait", "report">>,
     message |-> Some(message), trace_id |-> None, details |-> None]

sys(code, message) ==
    [code |-> code, cat |-> "sys", op |-> None, retryable |-> FALSE,
     retry_after_s |-> None, fix |-> <<"report">>,
     message |-> Some(message), trace_id |-> None, details |-> None]

timeout_fixed_retry(code, message, retry_after) ==
    [code |-> code, cat |-> "time", op |-> None, retryable |-> TRUE,
     retry_after_s |-> Some(5), fix |-> <<"wait">>,
     message |-> Some(message), trace_id |-> None, details |-> None]

timeout(code, message, retry_after) ==
    [code |-> code, cat |-> "time", op |-> None, retryable |-> TRUE,
     retry_after_s |-> Some(retry_after), fix |-> <<"wait">>,
     message |-> Some(message), trace_id |-> None, details |-> None]

with_op(e, op) == [e EXCEPT !.op = Some(op)]

with_details_resets_retry(e, details) ==
    [e EXCEPT !.details = Some(details), !.retry_after_s = None]

with_details(e, details) == [e EXCEPT !.details = Some(details)]

exit_code_time_as_default(e) ==
    CASE e.cat = "in" -> 1
      [] e.cat = "auth" -> 3
      [] OTHER -> 2

exit_code(e) ==
    CASE e.cat = "in" -> 1
      [] e.cat = "auth" -> 3
      [] e.cat = "time" -> 4
      [] OTHER -> 2

-----------------------------------------------------------------------------
(* output.rs: serialization *)

\* #[derive(Serialize)] on PebbleError: fields in declaration order, an
\* Option field skipped when it is None.
OptField_null(key, opt) == IF opt = None THEN <<<<key, None>>>> ELSE <<<<key, opt[1]>>>>

OptField(key, opt) == IF opt = None THEN <<>> ELSE <<<<key, opt[1]>>>>

SerPebbleError_message_before_fix(e) ==
    <<<<"code", e.code>>, <<"cat", e.cat>>>>
    \o OptField("op", e.op)
    \o <<<<"retryable", e.retryable>>>>
    \o OptField("retry_after_s", e.retry_after_s)
    \o OptField("message", e.message)
    \o <<<<"fix", e.fix>>>>
    \o OptField("trace_id", e.trace_id)
    \o OptField("details", e.details)

SerPebbleError(e) ==
    <<<<"code", e.code>>, <<"cat", e.cat>>>>
    \o OptField("op", e.op)
    \o <<<<"retryable", e.retryable>>>>
    \o OptField("retry_after_s", e.retry_after_s)
    \o <<<<"fix", e.fix>>>>
    \o OptField("message", e.message)
    \o OptField("trace_id", e.trace_id)
    \o OptField("details", e.details)

\* #[derive(Serialize)] on Event<T>
Event(event_type, payload) ==
    <<<<"v", SCHEMA_VERSION>>, <<"type", event_type>>, <<"payload", payload>>>>

\* println!("{}", serde_json::to_string(..)): one line holding one JSON text
JsonLine(value) == [json |-> value]

\* a line of plain text
TextLine(text) == [text |-> text]

\* println!("{}", serde_json::to_string_pretty(&object)): the opening brace, one
\* entry per top-level member (a nested member spans further lines of the same
\* entry), the closing brace. An empty object prints as the single line "{}".
RECURSIVE MemberLines(_, _)
MemberLines(obj, keys) ==
    IF keys = {} THEN <<>>
    ELSE LET k == CHOOSE x \in keys : TRUE
         IN <<[member |-> k, value |-> obj[k]]>> \o MemberLines(obj, keys \ {k})

PrettyLines(obj) ==
    IF DOMAIN obj = {} THEN <<TextLine("{}")>>
    ELSE <<TextLine("{")>> \o MemberLines(obj, DOMAIN obj) \o <<TextLine("}")>>

emit_wrong_type(io, event_type, payload) ==
    [io EXCEPT !.stdout = Append(@, JsonLine(Event("log", payload)))]

emit(io, event_type, payload) ==
    [io EXCEPT !.stdout = Append(@, JsonLine(Event(event_type, payload)))]

eprintln(io, text) == [io EXCEPT !.stderr = Append(@, TextLine(text))]

-----------------------------------------------------------------------------
(* output.rs: the Output channel.  io is the process's observable state     *)
(* [stdout, stderr, events, status]; each operation returns the new one.    *)

IO == [stdout |-> stdout, stderr |-> stderr, events |-> events, status |-> status]

new(agent_mode) == [constructed |-> TRUE, agent_mode |-> agent_mode]

\* str::to_uppercase on the level labels in use
to_uppercase(s) ==
    CASE s = "info" -> "INFO"
      [] s = "warn" -> "WARN"
      [] s = "error" -> "ERROR"
      [] OTHER -> s

\* {:3} of a u8: right-aligned in a field of width 3
Pad3(n) ==
    IF n < 10 THEN "  " \o ToString(n)
    ELSE IF n < 100 THEN " " \o ToString(n)
    ELSE ToString(n)

\* {:?} of a Vec<String>
RECURSIVE DebugItems(_)
DebugItems(s) ==
    IF s = <<>> THEN ""
    ELSE "\"" \o Head(s) \o "\"" \o (IF Len(s) > 1 THEN ", " ELSE "") \o DebugItems(Tail(s))

DebugVec(s) == "[" \o DebugItems(s) \o "]"

Called(io, ev) == [io EXCEPT !.events = Append(@, ev)]

log_human_to_stdout(o, io, level, message) ==
    LET io1 == Called(io, [type |-> "log", level |-> level, message |-> message])
    IN IF o.agent_mode
       THEN emit(io1, "log", [level |-> level, message |-> message])
       ELSE [io1 EXCEPT !.stdout = Append(@, TextLine("[" \o to_uppercase(level) \o "] " \o message))]

log(o, io, level, message) ==
    LET io1 == Called(io, [type |-> "log", level |-> level, message |-> message])
    IN IF o.agent_mode
       THEN emit(io1, "log", [level |-> level, message |-> message])
       ELSE eprintln(io1, "[" \o to_uppercase(level) \o "] " \o message)

progress(o, io, percent, message) ==
    LET io1 == Called(io, [type |-> "progress", percent |-> percent, message |-> message])
    IN IF o.agent_mode
       THEN emit(io1, "progress", [percent |-> percent, message |-> message])
       ELSE eprintln(io1, "[" \o Pad3(percent) \o "%] " \o message)

RECURSIVE PrintLines(_, _)
PrintLines(io, lines) ==
    IF lines = <<>> THEN io
    ELSE PrintLines([io EXCEPT !.stdout = Append(@, Head(lines))], Tail(lines))

result_then_exits(o, io, data) ==
    LET io1 == Called(io, [type |-> "result", data |-> data])
        io2 == IF o.agent_mode
               THEN emit(io1, "result", data)
               ELSE PrintLines(io1, PrettyLines(data))
    IN [io2 EXCEPT !.status = 0]

result_wraps_data(o, io, data) ==
    LET io1 == Called(io, [type |-> "result", data |-> data])
    IN IF o.agent_mode
       THEN emit(io1, "result", [data |-> data])
       ELSE PrintLines(io1, PrettyLines([data |-> data]))

result_(o, io, data) ==
    LET io1 == Called(io, [type |-> "result", data |-> data])
    IN IF o.agent_mode
       THEN emit(io1, "result", data)
       ELSE PrintLines(io1, PrettyLines(data))

\* std::process::exit(code)
process_exit_returns(io, code) == io

process_exit(io, code) == [io EXCEPT !.status = code]

error_fix_before_retry(o, io, e) ==
    LET io1 == Called(io, [type |-> "error", err |-> e])
        io2 == IF o.agent_mode
               THEN emit(io1, "error", SerPebbleError(e))
               ELSE LET a == eprintln(io1, "Error [" \o e.cat \o "][" \o e.code \o "]: "
                                            \o (IF e.message = None THEN "" ELSE e.message[1]))
                        b == eprintln(a, "  Fix: " \o DebugVec(e.fix))
                    IN IF e.retryable /\ e.retry_after_s # None
                       THEN eprintln(b, "  Retry after: " \o ToString(e.retry_after_s[1]) \o "s")
                       ELSE b
    IN [io2 EXCEPT !.status = exit_code(e)]

error(o, io, e) ==
    LET io1 == Called(io, [type |-> "error", err |-> e])
        io2 == IF o.agent_mode
               THEN emit(io1, "error", SerPebbleError(e))
               ELSE LET a == eprintln(io1, "Error [" \o e.cat \o "][" \o e.code \o "]: "
                                            \o (IF e.message = None THEN "" ELSE e.message[1]))
                        b == IF e.retryable /\ e.retry_after_s # None
                             THEN eprintln(a, "  Retry after: " \o ToString(e.retry_after_s[1]) \o "s")
                             ELSE a
                    IN eprintln(b, "  Fix: " \o DebugVec(e.fix))
    IN process_exit(io2, exit_code(e))

-----------------------------------------------------------------------------
(* Writing an io back to the state.  A step that ended the process leaves   *)
(* pc at "exited"; otherwise control moves to next.                      *)

SetIO(io) ==
    /\ stdout' = io.stdout
    /\ stderr' = io.stderr
    /\ events' = io.events
    /\ status' = io.status

Continue(io, next) ==
    /\ SetIO(io)
    /\ pc' = IF io.status = Running THEN next ELSE "exited"

-----------------------------------------------------------------------------
(* A free caller of the channel and of the error builders: any sequence of  *)
(* log / progress / result calls, one error built by a factory and          *)
(* annotated by with_op / with_details, and the call of error.              *)

ErrArgs == {<<"SSH_FAILED", "connection refused">>,
            <<"RECORD_EXISTS", "DNS record already exists">>}
RetryAfters == {0, 10}
Ops == {"dns.create", "service.health"}
DetailsVals == {[domain |-> "example.com"], [url |-> "https://example.com/health"]}
Levels == {"info", "warn"}
LogMessages == {"Fetching DNS records for example.com"}
Percents == {0, 50, 255}
Datas == {[domain |-> "example.com", count |-> 0, records |-> <<>>],
          [success |-> TRUE]}
Factories == {"net", "input", "auth", "ext", "sys", "timeout"}

NoCli == [agent |-> FALSE, manifest |-> FALSE, command |-> None]
NoResult == [returned |-> FALSE]
NoEnv == [loaded |-> FALSE]
NoLocal == [handler |-> "none"]

\* the value a factory call returns
Build(c) ==
    CASE c.fn = "net" -> net(c.code, c.message)
      [] c.fn = "input" -> input(c.code, c.message)
      [] c.fn = "auth" -> auth(c.code, c.message)
      [] c.fn = "ext" -> ext(c.code, c.message)
      [] c.fn = "sys" -> sys(c.code, c.message)
      [] c.fn = "timeout" -> timeout(c.code, c.message, c.retry_after)

InitChan ==
    /\ cli \in {[NoCli EXCEPT !.agent = a] : a \in BOOLEAN}
    /\ out = new(cli.agent)
    /\ pc = "caller"
    /\ stdout = <<>>
    /\ stderr = <<>>
    /\ events = <<>>
    /\ status = Running
    /\ result = NoResult
    /\ err = NoErr
    /\ chain = <<>>
    /\ env = NoEnv
    /\ local = NoLocal

CallerIdle == UNCHANGED <<cli, out, result, env, local>>

CallLog ==
    /\ pc = "caller" /\ Len(events) < MaxCalls
    /\ \E level \in Levels, message \in LogMessages :
         Continue(log(out, IO, level, message), "caller")
    /\ UNCHANGED <<err, chain>> /\ CallerIdle

CallProgress ==
    /\ pc = "caller" /\ Len(events) < MaxCalls
    /\ \E percent \in Percents, message \in LogMessages :
         Continue(progress(out, IO, percent, message), "caller")
    /\ UNCHANGED <<err, chain>> /\ CallerIdle

CallResult ==
    /\ pc = "caller" /\ Len(events) < MaxCalls
    /\ \E data \in Datas : Continue(result_(out, IO, data), "caller")
    /\ UNCHANGED <<err, chain>> /\ CallerIdle

CallFactory ==
    /\ pc = "caller" /\ chain = <<>>
    /\ \E fn \in Factories, a \in ErrArgs, n \in RetryAfters :
         /\ fn # "timeout" => n = 0
         /\ LET c == IF fn = "timeout"
                     THEN [fn |-> fn, code |-> a[1], message |-> a[2], retry_after |-> n]
                     ELSE [fn |-> fn, code |-> a[1], message |-> a[2]]
            IN /\ chain' = <<c>>
               /\ err' = Build(c)
    /\ UNCHANGED <<pc, stdout, stderr, events, status>> /\ CallerIdle

CallWithOp ==
    /\ pc = "caller" /\ chain # <<>> /\ Len(chain) < MaxChain
    /\ \E op \in Ops :
         /\ chain' = Append(chain, [fn |-> "with_op", op |-> op])
         /\ err' = with_op(err, op)
    /\ UNCHANGED <<pc, stdout, stderr, events, status>> /\ CallerIdle

CallWithDetails ==
    /\ pc = "caller" /\ chain # <<>> /\ Len(chain) < MaxChain
    /\ \E d \in DetailsVals :
         /\ chain' = Append(chain, [fn |-> "with_details", details |-> d])
         /\ err' = with_details(err, d)
    /\ UNCHANGED <<pc, stdout, stderr, events, status>> /\ CallerIdle

CallError ==
    /\ pc = "caller" /\ chain # <<>> /\ Len(events) < MaxCalls
    /\ Continue(error(out, IO, err), "caller")
    /\ UNCHANGED <<err, chain>> /\ CallerIdle

NextChan ==
    \/ CallLog
    \/ CallProgress
    \/ CallResult
    \/ CallFactory
    \/ CallWithOp
    \/ CallWithDetails
    \/ CallError

SpecChan == InitChan /\ [][NextChan]_vars

\* PROGRAM
-----------------------------------------------------------------------------
(* The program: one invocation of the cf binary.                            *)

\* anyhow::Result<()> as returned by a command handler
Ok == [returned |-> TRUE, is_err |-> FALSE]
Err(e) == [returned |-> TRUE, is_err |-> TRUE, e |-> e]

\* a panic on the main thread: the message goes to stderr and the process
\* ends with status 101, without passing through the Output channel
panic(io, message) ==
    [eprintln(io, "thread 'main' panicked: " \o message) EXCEPT !.status = 101]

\* the handler returns r to main
Return(r) ==
    /\ result' = r
    /\ pc' = "main_result"
    /\ UNCHANGED <<stdout, stderr, events, status>>

Frame_toggles_mode ==
    /\ out' = IF out.constructed THEN new(~out.agent_mode) ELSE out
    /\ UNCHANGED <<cli, err, chain>>

Frame == UNCHANGED <<cli, out, err, chain>>

-----------------------------------------------------------------------------
(* cli.rs: the command lines of the model *)

Domains == {"example.com"}
Names == {"api", "@"}
Ips == {"1.2.3.4"}
Servers == {"10.0.0.1"}

DnsCommands ==
    {[cmd |-> "dns", action |-> "list", domain |-> d] : d \in Domains}
    \cup {[cmd |-> "dns", action |-> a, domain |-> d, name |-> n] :
            a \in {"get", "delete"}, d \in Domains, n \in Names}
    \cup {[cmd |-> "dns", action |-> "create", domain |-> d, name |-> n, ip |-> i,
           desc |-> "", proxied |-> FALSE] : d \in Domains, n \in Names, i \in Ips}


cmd == cli.command[1]

-----------------------------------------------------------------------------
(* main.rs *)

\* output.rs: the manifest value of print_manifest
Manifest ==
    [schema_version |-> "1.0",
     pebble |-> [name |-> "cf", display_name |-> "Cloudflare CLI"],
     capabilities |-> [agent |-> TRUE, interactive |-> FALSE, streaming |-> FALSE, resume |-> FALSE],
     actions |-> <<"dns.list", "dns.get", "dns.create", "dns.delete", "caddy.add",
                   "caddy.add-lb", "caddy.reload", "service.check", "service.health",
                   "registry.stats", "registry.validate">>,
     permissions |-> [network |-> TRUE],
     limits |-> [default_timeout_s |-> 60, max_output_mb |-> 10]]

print_manifest(io) == PrintLines(io, PrettyLines(Manifest))

InitEnv ==
    [registry |-> [state |-> "missing"], caddyfile |-> <<>>, requests |-> <<>>, invocation |-> 1]

\* main.rs:19-22  if cli.manifest { print_manifest(); return; }
MainManifest ==
    /\ pc = "main" /\ cli.manifest
    /\ SetIO([print_manifest(IO) EXCEPT !.status = 0])
    /\ pc' = "returned"
    /\ UNCHANGED <<result, env, local>> /\ Frame

\* main.rs:24  let out = Output::new(cli.agent)
MainNewOutput ==
    /\ pc = "main" /\ ~cli.manifest
    /\ out' = new(cli.agent)
    /\ pc' = "main_command"
    /\ UNCHANGED <<cli, stdout, stderr, events, status, result, err, chain, env, local>>

\* main.rs:27-33, the None arm
MainNoCommand ==
    /\ pc = "main_command" /\ cli.command = None
    /\ Continue(process_exit(eprintln(IO, "Error: no command provided. Use --help for usage."), 1),
                "main_dispatch")
    /\ UNCHANGED <<result, env, local>> /\ Frame

\* main.rs:35-41  the match on the command
MainDispatch ==
    /\ pc = "main_command" /\ cli.command # None
    /\ pc' = cmd.cmd \o "_run"
    /\ UNCHANGED <<stdout, stderr, events, status, result, env, local>> /\ Frame

MainResult_reports_ext ==
    /\ pc = "main_result"
    /\ IF result.is_err
       THEN Continue(error(out, IO, ext("INTERNAL", result.e)), "main_end")
       ELSE /\ pc' = "main_end"
            /\ UNCHANGED <<stdout, stderr, events, status>>
    /\ UNCHANGED <<result, env, local>> /\ Frame

\* main.rs:43-46
MainResult ==
    /\ pc = "main_result"
    /\ IF result.is_err
       THEN Continue(error(out, IO, sys("INTERNAL", result.e)), "main_end")
       ELSE /\ pc' = "main_end"
            /\ UNCHANGED <<stdout, stderr, events, status>>
    /\ UNCHANGED <<result, env, local>> /\ Frame

\* main returns: the process ends with status 0
MainReturn ==
    /\ pc = "main_end"
    /\ pc' = "returned"
    /\ status' = 0
    /\ UNCHANGED <<stdout, stderr, events, result, env, local>> /\ Frame

ReturnOk_returns_err ==
    /\ pc = "return_ok"
    /\ Return(Err("unexpected"))
    /\ UNCHANGED <<env, local>> /\ Frame

\* the tail Ok(()) / return Ok(()) of a handler
ReturnOk ==
    /\ pc = "return_ok"
    /\ Return(Ok)
    /\ UNCHANGED <<env, local>> /\ Frame

-----------------------------------------------------------------------------
(* config.rs *)

\* domain.split('.').next().unwrap_or(domain).to_uppercase()
domain_slug(domain) ==
    CASE domain = "example.com" -> "EXAMPLE"
      [] domain = "missing.com" -> "MISSING"
      [] OTHER -> domain

zone_env(domain) == "CLOUDFLARE_" \o domain_slug(domain) \o "_ZONE_ID"
token_env(domain) == "CLOUDFLARE_" \o domain_slug(domain) \o "_API_TOKEN"

\* the variables of the process environment that matter to get_cf_credentials
EnvVarSets(domain) == SUBSET {zone_env(domain), token_env(domain)}

get_cf_credentials(domain, defined) ==
    IF zone_env(domain) \notin defined
    THEN Err("Missing env var: " \o zone_env(domain) \o ". Add it to your .env file.")
    ELSE IF token_env(domain) \notin defined
    THEN Err("Missing env var: " \o token_env(domain) \o ". Add it to your .env file.")
    ELSE [returned |-> TRUE, is_err |-> FALSE, zone_id |-> "zone-1", api_token |-> "token-1"]

-----------------------------------------------------------------------------
(* commands/dns.rs *)

CF_API_BASE == "https://api.cloudflare.com/client/v4"

Rec1 == [id |-> "rec-1", type |-> "A", name |-> "api.example.com", content |-> "1.2.3.4",
         proxied |-> FALSE, ttl |-> 1]
Rec2 == [id |-> "rec-2", type |-> "A", name |-> "example.com", content |-> "5.6.7.8",
         proxied |-> TRUE, ttl |-> 1]

CfErrors == {<<[code |-> 1000, message |-> "Invalid request"]>>,
             <<[code |-> 81057, message |-> "Record exists"]>>,
             <<[code |-> 81053, message |-> "An A record with that host already exists"]>>,
             <<[code |-> 1000, message |-> "Invalid request"],
               [code |-> 81057, message |-> "Record exists"]>>}

\* no error text is taken to say that the record exists
ContainsAlreadyExists_never(errors) == FALSE

\* the joined text contains "already exists"
ContainsAlreadyExists(errors) ==
    \E i \in 1..Len(errors) : errors[i].message = "An A record with that host already exists"

\* CfResponse<Vec<CfDnsRecord>> as parsed from the provider's answer
CfListResponses ==
    {[success |-> TRUE, result |-> r, errors |-> <<>>] :
        r \in {None, Some(<<>>), Some(<<Rec1>>), Some(<<Rec1, Rec2>>)}}
    \cup {[success |-> FALSE, result |-> r, errors |-> e] :
        r \in {None, Some(<<Rec1>>)}, e \in CfErrors}

\* CfResponse<CfDnsRecord>
CfRecordResponses ==
    {[success |-> TRUE, result |-> r, errors |-> <<>>] : r \in {None, Some(Rec1)}}
    \cup {[success |-> FALSE, result |-> None, errors |-> e] : e \in CfErrors}

\* CfResponse<serde_json::Value>
CfValueResponses ==
    {[success |-> TRUE, result |-> Some([id |-> "rec-1"]), errors |-> <<>>]}
    \cup {[success |-> FALSE, result |-> None, errors |-> e] : e \in CfErrors}

\* errors.iter().map(|e| format!("[{}] {}", e.code, e.message)).collect().join(", ")
RECURSIVE err_msg(_)
err_msg(errors) ==
    IF errors = <<>> THEN ""
    ELSE "[" \o ToString(Head(errors).code) \o "] " \o Head(errors).message
         \o (IF Len(errors) > 1 THEN ", " ELSE "") \o err_msg(Tail(errors))

fqdn(name, domain) ==
    IF name = "@" \/ name = domain THEN domain ELSE name \o "." \o domain

unwrap_or_default(opt) == IF opt = None THEN <<>> ELSE opt[1]

record_json(r) ==
    [id |-> r.id, type |-> r.type, name |-> r.name, content |-> r.content, proxied |-> r.proxied]

Sent(method, url) == [env EXCEPT !.requests = Append(@, [method |-> method, url |-> url])]

\* the outcome of send().await followed by resp.json().await
ConnectFailed == Err("Failed to connect to Cloudflare API")
ParseFailed == Err("Failed to parse Cloudflare response")

\* dns.rs:13-24  run: load_env()? and the match on the action
DnsRun ==
    /\ pc = "dns_run"
    /\ \E loaded \in BOOLEAN :
         IF loaded
         THEN /\ pc' = "dns_" \o cmd.action
              /\ UNCHANGED <<stdout, stderr, events, status, result>>
         ELSE Return(Err("Failed to load .env from \".env\""))
    /\ UNCHANGED <<env, local>> /\ Frame

\* the head of list/get/create/delete: get_cf_credentials(domain)? and the log line
DnsCredentials(label, text) ==
    /\ pc = label
    /\ \E defined \in EnvVarSets(cmd.domain) :
         LET c == get_cf_credentials(cmd.domain, defined)
         IN IF c.is_err
            THEN Return(c) /\ UNCHANGED local
            ELSE /\ Continue(log(out, IO, "info", text), label \o "_send")
                 /\ local' = [handler |-> label, zone_id |-> c.zone_id, api_token |-> c.api_token,
                               responses |-> <<>>]
                 /\ UNCHANGED result
    /\ UNCHANGED env /\ Frame

\* the responses the provider gave to this invocation, in order, each as
\* resp.json() parsed it (dns.rs:76-78, 131-133, 195-197, 253-256, 282-284)
Received(l, resp) == [l EXCEPT !.responses = Append(@, resp)]

\* the record a delete removes when the search found the last of several
first_record_id_last(records) == records[Len(records)].id

\* dns.rs:271  &records[0].id
first_record_id(records) == records[1].id

\* dns.rs:54-57
DnsList == DnsCredentials("dns_list", "Fetching DNS records for " \o cmd.domain)

\* dns.rs:59-99
DnsListSend ==
    /\ pc = "dns_list_send"
    /\ env' = Sent("GET", CF_API_BASE \o "/zones/" \o local.zone_id \o "/dns_records")
    /\ \/ Return(ConnectFailed) /\ UNCHANGED local
       \/ Return(ParseFailed) /\ UNCHANGED local
       \/ \E cf_resp \in CfListResponses :
            /\ UNCHANGED result
            /\ local' = Received(local, cf_resp)
            /\ IF ~cf_resp.success
               THEN Continue(error(out, IO,
                        with_details(with_op(ext("CF_API_ERROR", err_msg(cf_resp.errors)), "dns.list"),
                                     [domain |-> cmd.domain])), "return_ok")
               ELSE LET records == unwrap_or_default(cf_resp.result)
                    IN Continue(result_(out, IO,
                            [success |-> TRUE, domain |-> cmd.domain, count |-> Len(records),
                             records |-> [i \in 1..Len(records) |-> record_json(records[i])]]),
                            "return_ok")
    /\ Frame

\* dns.rs:102-111
DnsGet == DnsCredentials("dns_get", "Looking up DNS record: " \o fqdn(cmd.name, cmd.domain))

\* dns.rs:113-162
DnsGetSend ==
    /\ pc = "dns_get_send"
    /\ env' = Sent("GET", CF_API_BASE \o "/zones/" \o local.zone_id \o "/dns_records?name="
                          \o fqdn(cmd.name, cmd.domain))
    /\ \/ Return(ConnectFailed) /\ UNCHANGED local
       \/ Return(ParseFailed) /\ UNCHANGED local
       \/ \E cf_resp \in CfListResponses :
            /\ UNCHANGED result
            /\ local' = Received(local, cf_resp)
            /\ IF ~cf_resp.success
               THEN Continue(error(out, IO,
                        with_details(with_op(ext("CF_API_ERROR", err_msg(cf_resp.errors)), "dns.get"),
                                     [domain |-> cmd.domain])), "return_ok")
               ELSE LET records == unwrap_or_default(cf_resp.result)
                    IN IF records = <<>>
                       THEN Continue(result_(out, IO,
                                [success |-> TRUE, exists |-> FALSE,
                                 fqdn |-> fqdn(cmd.name, cmd.domain)]), "return_ok")
                       ELSE Continue(result_(out, IO,
                                [success |-> TRUE, exists |-> TRUE,
                                 fqdn |-> fqdn(cmd.name, cmd.domain),
                                 record |-> record_json(records[1])]), "return_ok")
    /\ Frame

\* dns.rs:165-174
DnsCreate ==
    DnsCredentials("dns_create",
        "Creating DNS A record: " \o fqdn(cmd.name, cmd.domain) \o " -> " \o cmd.ip)

\* dns.rs:176-229
DnsCreateSend ==
    /\ pc = "dns_create_send"
    /\ env' = Sent("POST", CF_API_BASE \o "/zones/" \o local.zone_id \o "/dns_records")
    /\ \/ Return(ConnectFailed) /\ UNCHANGED local
       \/ Return(ParseFailed) /\ UNCHANGED local
       \/ \E cf_resp \in CfRecordResponses :
            /\ UNCHANGED result
            /\ local' = Received(local, cf_resp)
            /\ IF ~cf_resp.success
               THEN IF \/ ContainsAlreadyExists(cf_resp.errors)
                       \/ \E i \in 1..Len(cf_resp.errors) : cf_resp.errors[i].code = 81057
                    THEN Continue(error(out, IO,
                            with_details(with_op(input("RECORD_EXISTS", "DNS record already exists"),
                                                 "dns.create"),
                                         [fqdn |-> fqdn(cmd.name, cmd.domain), ip |-> cmd.ip])),
                            "return_ok")
                    ELSE Continue(error(out, IO,
                            with_details(with_op(ext("CF_API_ERROR", err_msg(cf_resp.errors)),
                                                 "dns.create"),
                                         [domain |-> cmd.domain])), "return_ok")
               ELSE IF cf_resp.result = None
               THEN Continue(panic(IO, "called Option::unwrap() on a None value"), "return_ok")
               ELSE Continue(result_(out, IO,
                        [success |-> TRUE, record_id |-> cf_resp.result[1].id,
                         fqdn |-> fqdn(cmd.name, cmd.domain), ip |-> cmd.ip,
                         proxied |-> cmd.proxied]), "return_ok")
    /\ Frame

\* dns.rs:232-241
DnsDelete == DnsCredentials("dns_delete", "Deleting DNS record: " \o fqdn(cmd.name, cmd.domain))

\* dns.rs:243-268  the search request
DnsDeleteSend ==
    /\ pc = "dns_delete_send"
    /\ env' = Sent("GET", CF_API_BASE \o "/zones/" \o local.zone_id \o "/dns_records?name="
                          \o fqdn(cmd.name, cmd.domain))
    /\ \/ Return(ConnectFailed) /\ UNCHANGED local
       \/ Return(ParseFailed) /\ UNCHANGED local
       \/ \E search_result \in CfListResponses :
            LET records == unwrap_or_default(search_result.result)
            IN /\ UNCHANGED result
               /\ IF records = <<>>
                  THEN /\ Continue(result_(out, IO,
                              [success |-> TRUE, deleted |-> FALSE,
                               fqdn |-> fqdn(cmd.name, cmd.domain),
                               message |-> "Record not found"]), "return_ok")
                       /\ local' = Received(local, search_result)
                  ELSE /\ pc' = "dns_delete_request"
                       /\ local' = [Received(local, search_result)
                                         EXCEPT !.handler = "dns_delete_request"]
                                      @@ [record_id |-> first_record_id(records),
                                          search_success |-> search_result.success]
                       /\ UNCHANGED <<stdout, stderr, events, status>>
    /\ Frame

\* dns.rs:270-303  the delete request
DnsDeleteRequest ==
    /\ pc = "dns_delete_request"
    /\ env' = Sent("DELETE", CF_API_BASE \o "/zones/" \o local.zone_id \o "/dns_records/"
                             \o local.record_id)
    /\ \/ Return(ConnectFailed) /\ UNCHANGED local
       \/ Return(ParseFailed) /\ UNCHANGED local
       \/ \E delete_result \in CfValueResponses :
            /\ UNCHANGED result
            /\ local' = Received(local, delete_result)
            /\ IF ~delete_result.success
               THEN Continue(error(out, IO,
                        with_details(with_op(ext("CF_API_ERROR", err_msg(delete_result.errors)),
                                             "dns.delete"),
                                     [domain |-> cmd.domain])), "return_ok")
               ELSE Continue(result_(out, IO,
                        [success |-> TRUE, deleted |-> TRUE,
                         fqdn |-> fqdn(cmd.name, cmd.domain),
                         record_id |-> local.record_id]), "return_ok")
    /\ Frame

-----------------------------------------------------------------------------
(* commands/caddy.rs *)

\* the remote command was handed to ssh (whether or not it then ran)
Ssh(server, command) == Sent("SSH", "root@" \o server \o " " \o command)

\* caddy.rs:23-38  ssh_exec: Err when ssh cannot be started or exits non-zero
CaddySshResults ==
    {[is_err |-> FALSE, stdout |-> "Valid configuration\n"],
     [is_err |-> TRUE, e |-> "Failed to execute SSH command"],
     [is_err |-> TRUE, e |-> "SSH command failed: ssh: connect to host 10.0.0.1 port 22: Connection refused"]}

\* str::trim on the texts of the model
trim(s) ==
    CASE s = "Valid configuration\n" -> "Valid configuration"
      [] s = " b:2" -> "b:2"
      [] s = "\n" -> ""
      [] OTHER -> s

\* caddy.rs:44-56  the block of add, trimmed, and the command that appends it
add_config(domain, upstream) == domain \o " {\n    reverse_proxy " \o upstream \o "\n}"

append_cmd(config) == "cat >> /etc/caddy/Caddyfile << 'EOF'\n" \o config \o "\nEOF"

VALIDATE_CMD == "caddy validate --config /etc/caddy/Caddyfile"

\* caddy.rs:91  upstreams.split(',').map(|s| s.trim()).collect()
upstream_list(upstreams) ==
    CASE upstreams = "a:1, b:2" -> <<trim("a:1"), trim(" b:2")>>
      [] OTHER -> <<trim(upstreams)>>

RECURSIVE join(_, _)
join(s, sep) ==
    IF s = <<>> THEN ""
    ELSE Head(s) \o (IF Len(s) > 1 THEN sep ELSE "") \o join(Tail(s), sep)

\* caddy.rs:96-105
add_lb_config(domain, upstreams, health_uri) ==
    domain \o " {\n    reverse_proxy " \o join(upstream_list(upstreams), " ")
    \o " {\n        lb_policy round_robin\n        health_uri " \o health_uri
    \o "\n        health_interval 30s\n    }\n}"

CaddyCommands ==
    {[cmd |-> "caddy", action |-> "add", server |-> s, domain |-> "app.example.com",
      upstream |-> "localhost:3000"] : s \in Servers}
    \cup {[cmd |-> "caddy", action |-> "add-lb", server |-> s, domain |-> "app.example.com",
           upstreams |-> u, health_uri |-> "/health"] : s \in Servers, u \in {"a:1, b:2", "a:1"}}
    \cup {[cmd |-> "caddy", action |-> a, server |-> s] : a \in {"reload", "validate"}, s \in Servers}

\* caddy.rs:10-21  run
CaddyRun ==
    /\ pc = "caddy_run"
    /\ pc' = "caddy_" \o cmd.action
    /\ UNCHANGED <<stdout, stderr, events, status, result, env, local>> /\ Frame

\* the first half of add / add_lb: the log line and the ssh_exec that appends the block
CaddyAppend(label, text, config, added, op, failed) ==
    /\ pc = label
    /\ \E r \in CaddySshResults :
         LET io1 == log(out, IO, "info", text)
             sent == Ssh(cmd.server, append_cmd(config))
         IN IF ~r.is_err
            THEN /\ env' = [sent EXCEPT !.caddyfile = Append(@, config)]
                 /\ Continue(log(out, io1, "info", added), label \o "_validate")
            ELSE /\ env' = sent
                 /\ Continue(error(out, io1,
                        with_details(with_op(net("SSH_FAILED", failed \o r.e), op),
                                     [server |-> cmd.server])), "return_ok")
    /\ UNCHANGED <<result, local>> /\ Frame

\* the second half of add / add_lb: caddy validate, then result or CADDY_INVALID
CaddyValidateAdded(label, data, op) ==
    /\ pc = label
    /\ env' = Ssh(cmd.server, VALIDATE_CMD)
    /\ \E r \in CaddySshResults :
         IF ~r.is_err
         THEN Continue(result_(out, IO, data), "return_ok")
         ELSE Continue(error(out, IO,
                  with_details(with_op(ext("CADDY_INVALID", "Caddy config validation failed: " \o r.e), op),
                               [server |-> cmd.server, domain |-> cmd.domain])), "return_ok")
    /\ UNCHANGED <<result, local>> /\ Frame

\* caddy.rs:40-59 and 80-85
CaddyAdd ==
    CaddyAppend("caddy_add",
        "Adding Caddy reverse proxy: " \o cmd.domain \o " -> " \o cmd.upstream,
        add_config(cmd.domain, cmd.upstream), "Caddy configuration added", "caddy.add",
        "Failed to add Caddy config: ")

\* caddy.rs:62-79
CaddyAddValidate ==
    CaddyValidateAdded("caddy_add_validate",
        [success |-> TRUE, server |-> cmd.server, domain |-> cmd.domain,
         upstream |-> cmd.upstream,
         message |-> "Configuration added. Run 'cf caddy reload' to apply."],
        "caddy.add")

\* caddy.rs:90-116 and 138-143
CaddyAddLb ==
    CaddyAppend("caddy_add-lb",
        "Adding Caddy load balancer: " \o cmd.domain \o " -> " \o DebugVec(upstream_list(cmd.upstreams)),
        add_lb_config(cmd.domain, cmd.upstreams, cmd.health_uri),
        "Load balancer configuration added", "caddy.add-lb",
        "Failed to add load balancer config: ")

\* caddy.rs:119-137
CaddyAddLbValidate ==
    CaddyValidateAdded("caddy_add-lb_validate",
        [success |-> TRUE, server |-> cmd.server, domain |-> cmd.domain,
         upstreams |-> upstream_list(cmd.upstreams), health_uri |-> cmd.health_uri,
         message |-> "Load balancer configured. Run 'cf caddy reload' to apply."],
        "caddy.add-lb")

\* caddy.rs:148-167
CaddyReload ==
    /\ pc = "caddy_reload"
    /\ env' = Ssh(cmd.server, "systemctl reload caddy")
    /\ \E r \in CaddySshResults :
         LET io1 == log(out, IO, "info", "Reloading Caddy on " \o cmd.server)
         IN IF ~r.is_err
            THEN Continue(result_(out, io1,
                     [success |-> TRUE, server |-> cmd.server,
                      message |-> "Caddy reloaded successfully"]), "return_ok")
            ELSE Continue(error(out, io1,
                     with_details(with_op(ext("CADDY_RELOAD_FAILED", "Failed to reload Caddy: " \o r.e),
                                          "caddy.reload"),
                                  [server |-> cmd.server])), "return_ok")
    /\ UNCHANGED <<result, local>> /\ Frame

\* caddy.rs:169-192
CaddyValidate ==
    /\ pc = "caddy_validate"
    /\ env' = Ssh(cmd.server, VALIDATE_CMD)
    /\ \E r \in CaddySshResults :
         LET io1 == log(out, IO, "info", "Validating Caddy config on " \o cmd.server)
         IN IF ~r.is_err
            THEN Continue(result_(out, io1,
                     [success |-> TRUE, valid |-> TRUE, server |-> cmd.server,
                      output |-> trim(r.stdout)]), "return_ok")
            ELSE Continue(result_(out, io1,
                     [success |-> TRUE, valid |-> FALSE, server |-> cmd.server,
                      error |-> r.e]), "return_ok")
    /\ UNCHANGED <<result, local>> /\ Frame

-----------------------------------------------------------------------------
(* commands/service.rs *)

\* A text whose bytes matter is a sequence of runs: n characters ch of w bytes each.
Run(ch, w, n) == [ch |-> ch, w |-> w, n |-> n]

RECURSIVE ByteLen(_)
ByteLen(text) ==
    IF text = <<>> THEN 0 ELSE Head(text).w * Head(text).n + ByteLen(Tail(text))

\* str::is_char_boundary(k)
RECURSIVE is_char_boundary(_, _)
is_char_boundary(text, k) ==
    IF k = 0 THEN TRUE
    ELSE IF text = <<>> THEN FALSE
    ELSE LET r == Head(text)
         IN IF k >= r.w * r.n
            THEN is_char_boundary(Tail(text), k - r.w * r.n)
            ELSE k % r.w = 0

\* &text[..k] for k a char boundary
RECURSIVE slice_to(_, _)
slice_to(text, k) ==
    IF k = 0 \/ text = <<>> THEN <<>>
    ELSE LET r == Head(text)
         IN IF k >= r.w * r.n
            THEN <<r>> \o slice_to(Tail(text), k - r.w * r.n)
            ELSE <<Run(r.ch, r.w, k \div r.w)>>

PREVIEW_BYTES == 200

\* service.rs:96-100; NoPreview stands for the panic of a slice inside a character
NoPreview == <<Run("panic", 0, 0)>>

body_preview(body) ==
    IF ByteLen(body) > PREVIEW_BYTES
    THEN IF is_char_boundary(body, PREVIEW_BYTES)
         THEN slice_to(body, PREVIEW_BYTES) \o <<Run(".", 1, 3)>>
         ELSE NoPreview
    ELSE body

Bodies ==
    {<<>>,
     <<Run("a", 1, 200)>>,
     <<Run("a", 1, 201)>>,
     <<Run("a", 1, 199), Run("e-acute", 2, 1)>>,
     <<Run("e-acute", 2, 101)>>}

\* a u64 as [hi, lo] with value hi * 2^32 + lo; as u32 keeps lo
U64(hi, lo) == [hi |-> hi, lo |-> lo]
as_u32(n) == n.lo
U64Text(n) == IF n.hi = 0 THEN ToString(n.lo) ELSE ToString(n.hi) \o "*2^32+" \o ToString(n.lo)

Timeouts == {U64(0, 10), U64(0, 0), U64(1, 10)}
Ports == {80}

\* service.rs:20-30  ssh_exec: Err only when ssh cannot be started; the exit
\* status is not looked at.  stdout is the text split at "users:" and each part
\* split at the double quote.
NoListener == <<<<"">>>>
ListenerNginx == <<<<"LISTEN 0 511 0.0.0.0:80 0.0.0.0:* ">>, <<"((", "nginx", ",pid=7,fd=6))\n">>>>
ListenerNoUsers == <<<<"LISTEN 0 511 0.0.0.0:80 0.0.0.0:*\n">>>>

\* exit is the status of the ssh process: 255 when the connection failed,
\* otherwise the status of the remote command (1 when grep matched nothing)
ServiceSshResults ==
    {[is_err |-> TRUE, e |-> "Failed to execute SSH command"],
     [is_err |-> FALSE, exit |-> 255, stdout |-> NoListener],
     [is_err |-> FALSE, exit |-> 1, stdout |-> NoListener]}
    \cup {[is_err |-> FALSE, exit |-> 0, stdout |-> o] : o \in {ListenerNginx, ListenerNoUsers}}

\* output.trim().is_empty()
trim_is_empty(output) ==
    /\ Len(output) = 1 /\ Len(output[1]) = 1
    /\ output[1][1] \in {"", " ", "\n"}

\* output.split("users:").nth(1).and_then(|s| s.split('"').nth(1)).unwrap_or("unknown")
process_name(output) ==
    IF Len(output) >= 2 /\ Len(output[2]) >= 2 THEN output[2][2] ELSE "unknown"

HealthUrl == "https://example.com/health"

ServiceCommands ==
    {[cmd |-> "service", action |-> "check", server |-> s, port |-> p] : s \in Servers, p \in Ports}
    \cup {[cmd |-> "service", action |-> "health", url |-> HealthUrl, timeout |-> t] : t \in Timeouts}
    \cup {[cmd |-> "service", action |-> a, server |-> s] : a \in {"docker-ps", "pm2-list"}, s \in Servers}

\* service.rs:11-18  run
ServiceRun ==
    /\ pc = "service_run"
    /\ pc' = "service_" \o cmd.action
    /\ UNCHANGED <<stdout, stderr, events, status, result, env, local>> /\ Frame

\* service.rs:32-75
ServiceCheck ==
    /\ pc = "service_check"
    /\ env' = Ssh(cmd.server, "ss -tlnp | grep ':" \o ToString(cmd.port) \o "'")
    /\ \E r \in ServiceSshResults :
         LET io1 == log(out, IO, "info",
                        "Checking port " \o ToString(cmd.port) \o " on " \o cmd.server)
         IN /\ local' = [handler |-> "service_check", ssh |-> r]
            /\ IF r.is_err
               THEN Continue(error(out, io1,
                        with_details(with_op(net("SSH_FAILED", "Failed to check port: " \o r.e),
                                             "service.check"),
                                     [server |-> cmd.server, port |-> cmd.port])), "return_ok")
               ELSE IF ~trim_is_empty(r.stdout)
               THEN Continue(result_(out, io1,
                        [success |-> TRUE, server |-> cmd.server, port |-> cmd.port,
                         listening |-> TRUE, process |-> process_name(r.stdout)]), "return_ok")
               ELSE Continue(result_(out, io1,
                        [success |-> TRUE, server |-> cmd.server, port |-> cmd.port,
                         listening |-> FALSE]), "return_ok")
    /\ UNCHANGED result /\ Frame

\* service.rs:77-84  the log line and the client builder
ServiceHealth ==
    /\ pc = "service_health"
    /\ \E built \in BOOLEAN :
         IF built
         THEN /\ Continue(log(out, IO, "info", "Health check: " \o cmd.url), "service_health_send")
              /\ UNCHANGED result
         ELSE /\ SetIO(log(out, IO, "info", "Health check: " \o cmd.url))
              /\ result' = Err("Failed to create HTTP client")
              /\ pc' = "main_result"
    /\ UNCHANGED <<env, local>> /\ Frame

HealthStatuses == {199, 200, 399, 400, 503}
ElapsedMs == {12}
HealthErrors ==
    {[is_timeout |-> t, is_connect |-> c, text |-> "error sending request"] :
        t \in BOOLEAN, c \in BOOLEAN}

\* service.rs:86-135
ServiceHealthSend ==
    /\ pc = "service_health_send"
    /\ env' = Sent("GET", cmd.url)
    /\ \E elapsed \in ElapsedMs :
         \/ \E st \in HealthStatuses, body \in Bodies :
              /\ local' = [handler |-> "service_health",
                           outcome |-> [received |-> TRUE, status |-> st, body |-> body]]
              /\ IF body_preview(body) = NoPreview
                 THEN Continue(panic(IO, "byte index 200 is not a char boundary"), "return_ok")
                 ELSE Continue(result_(out, IO,
                          [success |-> TRUE, url |-> cmd.url,
                           healthy |-> (st >= 200 /\ st < 400), status |-> st,
                           response_time_ms |-> elapsed,
                           body_preview |-> body_preview(body)]), "return_ok")
         \/ \E e \in HealthErrors :
              /\ local' = [handler |-> "service_health",
                           outcome |-> [received |-> FALSE, e |-> e]]
              /\ IF e.is_timeout
                 THEN Continue(error(out, IO,
                          with_details(with_op(
                              timeout("TIMEOUT",
                                      "Health check timed out after " \o U64Text(cmd.timeout) \o "s",
                                      as_u32(cmd.timeout)),
                              "service.health"), [url |-> cmd.url])), "return_ok")
                 ELSE IF e.is_connect
                 THEN Continue(error(out, IO,
                          with_details(with_op(net("CONNECT_FAILED", "Connection failed: " \o e.text),
                                               "service.health"), [url |-> cmd.url])), "return_ok")
                 ELSE Continue(result_(out, IO,
                          [success |-> TRUE, url |-> cmd.url, healthy |-> FALSE,
                           error |-> e.text, response_time_ms |-> elapsed]), "return_ok")
    /\ UNCHANGED result /\ Frame

\* the lines of docker ps: a blank line, a line that parses as JSON, one that does not
Container1 == [name |-> "web", image |-> "nginx:latest", status |-> "Up 2 hours", ports |-> "80/tcp"]
DockerOutputs ==
    {<<>>,
     <<[blank |-> FALSE, parsed |-> Some(Container1)]>>,
     <<[blank |-> FALSE, parsed |-> Some(Container1)], [blank |-> FALSE, parsed |-> None],
       [blank |-> TRUE, parsed |-> None]>>}

RECURSIVE parsed_lines(_)
parsed_lines(lines) ==
    IF lines = <<>> THEN <<>>
    ELSE (IF ~Head(lines).blank /\ Head(lines).parsed # None
          THEN <<Head(lines).parsed[1]>> ELSE <<>>) \o parsed_lines(Tail(lines))

\* service.rs:137-166
ServiceDockerPs ==
    /\ pc = "service_docker-ps"
    /\ env' = Ssh(cmd.server, "docker ps --format '{...}'")
    /\ LET io1 == log(out, IO, "info", "Listing Docker containers on " \o cmd.server)
       IN \/ Continue(error(out, io1,
                 with_details(with_op(net("SSH_FAILED",
                     "Failed to list Docker containers: Failed to execute SSH command"),
                     "service.docker-ps"), [server |-> cmd.server])), "return_ok")
          \/ \E output \in DockerOutputs :
               LET containers == parsed_lines(output)
               IN Continue(result_(out, io1,
                      [success |-> TRUE, server |-> cmd.server, count |-> Len(containers),
                       containers |-> containers]), "return_ok")
    /\ UNCHANGED <<result, local>> /\ Frame

\* pm2 jlist entries: every field the summary reads may be missing
Pm2Full == [name |-> Some("web"), status |-> Some("online"), pid |-> Some(42),
            memory |-> Some(1024), cpu |-> Some(3)]
Pm2Bare == [name |-> None, status |-> None, pid |-> None, memory |-> None, cpu |-> None]
Pm2Outputs == {None, Some(<<>>), Some(<<Pm2Full, Pm2Bare>>)}

unwrap_or(opt, default) == IF opt = None THEN default ELSE opt[1]

pm2_summary(p) ==
    [name |-> unwrap_or(p.name, "unknown"), status |-> unwrap_or(p.status, "unknown"),
     pid |-> unwrap_or(p.pid, 0), memory |-> unwrap_or(p.memory, 0), cpu |-> unwrap_or(p.cpu, 0)]

\* service.rs:168-206
ServicePm2List ==
    /\ pc = "service_pm2-list"
    /\ env' = Ssh(cmd.server, "pm2 jlist 2>/dev/null || echo '[]'")
    /\ LET io1 == log(out, IO, "info", "Listing PM2 processes on " \o cmd.server)
       IN \/ Continue(error(out, io1,
                 with_details(with_op(net("SSH_FAILED",
                     "Failed to list PM2 processes: Failed to execute SSH command"),
                     "service.pm2-list"), [server |-> cmd.server])), "return_ok")
          \/ \E output \in Pm2Outputs :
               LET processes == unwrap_or_default(output)
                   summary == [i \in 1..Len(processes) |-> pm2_summary(processes[i])]
               IN Continue(result_(out, io1,
                      [success |-> TRUE, server |-> cmd.server, count |-> Len(summary),
                       processes |-> summary]), "return_ok")
    /\ UNCHANGED <<result, local>> /\ Frame

-----------------------------------------------------------------------------
(* config.rs: registry.json *)

ARec(name, content, desc) == [type |-> "A", name |-> name, content |-> content, desc |-> desc]

\* the JSON document of registry.json: a member with #[serde(default)] may be
\* missing, a member the types do not name may be present
Reg0 ==
    [version |-> "1.0", updated |-> "2026-01-01",
     domains |->
        ("example.com" :> [zone_id |-> "zone-1",
                           records |-> <<ARec("api", "1.2.3.4", "API"),
                                         [type |-> "comment", desc |-> "web"],
                                         [type |-> "CNAME", name |-> "www", content |-> "example.com", desc |-> ""]>>])
        @@ ("other.com" :> [zone_id |-> "zone-2",
                            records |-> <<[type |-> "A", name |-> "api", content |-> "5.6.7.8",
                                           desc |-> "", ttl |-> 300]>>]),
     servers |-> ("s1" :> [location |-> "fra", name |-> "server-1"])]

\* a registry in which validate finds a duplicate: the name new is both CNAME and TXT
RegDup ==
    [Reg0 EXCEPT !.domains["example.com"].records =
        @ \o <<[type |-> "CNAME", name |-> "new", content |-> "example.com", desc |-> ""],
               [type |-> "TXT", name |-> "new", content |-> "v=spf1", desc |-> ""]>>]

\* the file: missing, not a Registry, or a Registry
RegistryFiles ==
    {[state |-> "missing"], [state |-> "invalid"],
     [state |-> "ok", value |-> Reg0], [state |-> "ok", value |-> RegDup]}

REGISTRY_PATH == "./registry.json"

\* #[serde(default)] on a String member
member_or_default(obj, key) == IF key \in DOMAIN obj THEN obj[key] ELSE ""

\* config.rs:67-77  Deserialize of DnsRecord: the four members it names
DnsRecord(obj) ==
    [type |-> obj.type, name |-> member_or_default(obj, "name"),
     content |-> member_or_default(obj, "content"), desc |-> member_or_default(obj, "desc")]

RECURSIVE records_from(_)
records_from(list) ==
    IF list = <<>> THEN <<>> ELSE <<DnsRecord(Head(list))>> \o records_from(Tail(list))

\* config.rs:51-65  Deserialize of Registry and DomainConfig
from_str(doc) ==
    [version |-> doc.version, updated |-> doc.updated,
     domains |-> [d \in DOMAIN doc.domains |->
                    [zone_id |-> doc.domains[d].zone_id,
                     records |-> records_from(doc.domains[d].records)]],
     servers |-> doc.servers,
     tunnels |-> IF "tunnels" \in DOMAIN doc THEN doc.tunnels ELSE <<>>]

\* config.rs:85-92
load_registry(file) ==
    CASE file.state = "missing" ->
            Err("Failed to read registry.json from \"" \o REGISTRY_PATH \o "\"")
      [] file.state = "invalid" -> Err("Failed to parse registry.json")
      [] OTHER -> [returned |-> TRUE, is_err |-> FALSE, value |-> from_str(file.value)]

\* config.rs:95-102  save_registry: to_string_pretty writes every member of
\* the Registry; a write that fails may have truncated the file already
save_registry(file, registry, written) ==
    IF written THEN {[state |-> "ok", value |-> registry]}
    ELSE {file, [state |-> "invalid"]}

\* the orders in which a HashMap of these keys may be iterated
Orders(keys) ==
    {s \in [1..Cardinality(keys) -> keys] : \A i, j \in DOMAIN s : i # j => s[i] # s[j]}

-----------------------------------------------------------------------------
(* commands/registry.rs *)

RegistryCommands ==
    {[cmd |-> "registry", action |-> a] : a \in {"validate", "stats"}}
    \cup {[cmd |-> "registry", action |-> "add", domain |-> d, name |-> n, ip |-> "9.9.9.9",
           desc |-> "new host"] : d \in {"example.com", "missing.com"}, n \in {"api", "new", "www"}}

\* registry.rs:10-18  run
RegistryRun ==
    /\ pc = "registry_run"
    /\ pc' = "registry_" \o cmd.action
    /\ UNCHANGED <<stdout, stderr, events, status, result, env, local>> /\ Frame

non_comment(records) == SelectSeq(records, LAMBDA r : r.type # "comment")

\* registry.rs:35-40  one issue per record whose name was already seen
RECURSIVE duplicate_issues(_, _, _)
duplicate_issues(records, seen_names, domain) ==
    IF records = <<>> THEN <<>>
    ELSE LET r == Head(records)
         IN (IF r.name \in seen_names
             THEN <<"Duplicate record: " \o r.name \o "." \o domain>> ELSE <<>>)
            \o duplicate_issues(Tail(records), seen_names \cup {r.name}, domain)

\* registry.rs:28-41  the loop over the domains, in iteration order
RECURSIVE validate_issues(_, _)
validate_issues(registry, order) ==
    IF order = <<>> THEN <<>>
    ELSE duplicate_issues(non_comment(registry.domains[Head(order)].records), {}, Head(order))
         \o validate_issues(registry, Tail(order))

RECURSIVE total_records(_, _)
total_records(registry, order) ==
    IF order = <<>> THEN 0
    ELSE Len(non_comment(registry.domains[Head(order)].records))
         + total_records(registry, Tail(order))

\* registry.rs:20-59
RegistryValidate ==
    /\ pc = "registry_validate"
    /\ LET io1 == log(out, IO, "info", "Validating registry.json")
           loaded == load_registry(env.registry)
       IN IF loaded.is_err
          THEN Continue(error(out, io1,
                   with_op(input("PARSE_FAIL", "Failed to parse registry.json: " \o loaded.e),
                           "registry.validate")), "return_ok")
          ELSE \E order \in Orders(DOMAIN loaded.value.domains) :
                 LET registry == loaded.value
                     issues == validate_issues(registry, order)
                 IN Continue(result_(out, io1,
                        [success |-> TRUE, valid |-> (issues = <<>>),
                         domains |-> Cardinality(DOMAIN registry.domains),
                         records |-> total_records(registry, order),
                         servers |-> Cardinality(DOMAIN registry.servers),
                         issues |-> issues]), "return_ok")
    /\ UNCHANGED <<result, env, local>> /\ Frame

\* registry.rs:177-187  chrono_lite_date: the output of date, or "unknown"
Dates == {"2026-11-06", "unknown"}

push_record_first(registry, domain, record, date) ==
    [registry EXCEPT !.domains[domain].records = <<record>> \o @, !.updated = date]

\* registry.rs:95-106  domain_config.records.push(new_record); registry.updated = date
push_record(registry, domain, record, date) ==
    [registry EXCEPT !.domains[domain].records = Append(@, record), !.updated = date]

\* registry.rs:61-127
RegistryAdd ==
    /\ pc = "registry_add"
    /\ LET io1 == log(out, IO, "info",
                      "Adding to registry: " \o cmd.name \o "." \o cmd.domain \o " -> " \o cmd.ip)
           loaded == load_registry(env.registry)
       IN IF loaded.is_err
          THEN /\ Continue(error(out, io1,
                      with_op(input("PARSE_FAIL", "Failed to load registry.json: " \o loaded.e),
                              "registry.add")), "return_ok")
               /\ UNCHANGED env
          ELSE IF cmd.domain \notin DOMAIN loaded.value.domains
          THEN /\ \E order \in Orders(DOMAIN loaded.value.domains) :
                    Continue(error(out, io1,
                        with_details(with_op(input("NOT_FOUND",
                                "Domain not found in registry: " \o cmd.domain), "registry.add"),
                            [available_domains |-> order])), "return_ok")
               /\ UNCHANGED env
          ELSE LET records == loaded.value.domains[cmd.domain].records
                   exists == \E i \in 1..Len(records) :
                                records[i].name = cmd.name /\ records[i].type = "A"
               IN IF exists
                  THEN /\ Continue(error(out, io1,
                              with_details(with_op(input("RECORD_EXISTS",
                                      "Record already exists: " \o cmd.name \o "." \o cmd.domain),
                                      "registry.add"),
                                  [name |-> cmd.name, domain |-> cmd.domain])), "return_ok")
                       /\ UNCHANGED env
                  ELSE \E date \in Dates, saved \in BOOLEAN :
                         LET registry == push_record(loaded.value, cmd.domain,
                                                     ARec(cmd.name, cmd.ip, cmd.desc), date)
                         IN IF saved
                            THEN /\ \E f \in save_registry(env.registry, registry, TRUE) :
                                      env' = [env EXCEPT !.registry = f]
                                 /\ Continue(result_(out, io1,
                                        [success |-> TRUE, domain |-> cmd.domain, name |-> cmd.name,
                                         ip |-> cmd.ip, desc |-> cmd.desc, path |-> REGISTRY_PATH]),
                                        "return_ok")
                            ELSE /\ \E f \in save_registry(env.registry, registry, FALSE) :
                                      env' = [env EXCEPT !.registry = f]
                                 /\ Continue(error(out, io1,
                                        with_op(sys("WRITE_FAIL",
                                            "Failed to save registry.json: Failed to write registry.json to \""
                                            \o REGISTRY_PATH \o "\""), "registry.add")), "return_ok")
    /\ UNCHANGED <<result, local>> /\ Frame

count_type(records, t) == Len(SelectSeq(records, LAMBDA r : r.type = t))

\* registry.rs:136-152  one entry per domain
domain_stats(registry, order) ==
    [i \in 1..Len(order) |->
        LET records == non_comment(registry.domains[order[i]].records)
            a_count == count_type(records, "A")
            cname_count == count_type(records, "CNAME")
        IN [domain |-> order[i], total |-> Len(records), a_records |-> a_count,
            cname_records |-> cname_count, other |-> Len(records) - a_count - cname_count]]

\* registry.rs:129-175
RegistryStats ==
    /\ pc = "registry_stats"
    /\ LET io1 == log(out, IO, "info", "Computing registry statistics")
           loaded == load_registry(env.registry)
       IN IF loaded.is_err
          THEN Continue(error(out, io1,
                   with_op(input("PARSE_FAIL", "Failed to load registry.json: " \o loaded.e),
                           "registry.stats")), "return_ok")
          ELSE \E order \in Orders(DOMAIN loaded.value.domains) :
                 LET registry == loaded.value
                 IN Continue(result_(out, io1,
                        [success |-> TRUE, version |-> registry.version,
                         updated |-> registry.updated,
                         domains |-> domain_stats(registry, order),
                         servers |-> registry.servers,
                         total_records |-> total_records(registry, order),
                         total_servers |-> Cardinality(DOMAIN registry.servers)]), "return_ok")
    /\ UNCHANGED <<result, env, local>> /\ Frame

-----------------------------------------------------------------------------
(* commands/r2.rs *)

Keys_ == {"uploads/a.png"}
Limits == {0, 1, 2}

R2Commands ==
    {[cmd |-> "r2", action |-> "upload", file |-> "/tmp/a.png", key |-> k, public |-> p] :
        k \in {None, Some("custom/a.png")}, p \in BOOLEAN}
    \cup {[cmd |-> "r2", action |-> "list", prefix |-> p, limit |-> l] :
            p \in {"", "uploads/"}, l \in Limits}
    \cup {[cmd |-> "r2", action |-> a, key |-> k] : a \in {"delete", "info"}, k \in Keys_}

\* r2.rs:23-54  get_bucket: the bucket, or the first failure
BucketResults ==
    {[is_err |-> FALSE, name |-> "bucket-1"],
     [is_err |-> TRUE, e |-> "CLOUDFLARE_R2_BUCKET_NAME not set"],
     [is_err |-> TRUE, e |-> "CLOUDFLARE_R2_SECRET_ACCESS_KEY not set"]}

\* r2.rs:56-60 and 62-66, with the variables unset
get_public_url == "https://pub-87cd59069cf0444aad048f7bddec99af.r2.dev"
get_folder_prefix == "uploads/"

\* path.file_name().and_then(|n| n.to_str()).unwrap_or("unknown")
file_name(path) ==
    CASE path = "/tmp/a.png" -> "a.png"
      [] OTHER -> "unknown"

\* mime_guess::from_path(path).first_or_octet_stream()
content_type(path) ==
    CASE path = "/tmp/a.png" -> "image/png"
      [] OTHER -> "application/octet-stream"

\* r2.rs:10-17  run
R2Run ==
    /\ pc = "r2_run"
    /\ pc' = "r2_" \o cmd.action
    /\ UNCHANGED <<stdout, stderr, events, status, result, env, local>> /\ Frame

FileSizes == {0, 3}

\* r2.rs:67-111  up to the bucket
R2Upload ==
    /\ pc = "r2_upload"
    /\ LET io1 == log(out, IO, "info", "Uploading file: " \o cmd.file)
       IN \/ /\ Continue(error(out, io1,
                    with_op(input("FILE_NOT_FOUND", "File not found: " \o cmd.file), "r2.upload")),
                    "return_ok")
             /\ UNCHANGED <<result, local>>
          \/ /\ SetIO(io1)
             /\ result' = Err("Failed to read file")
             /\ pc' = "main_result"
             /\ UNCHANGED local
          \/ \E file_size \in FileSizes, b \in BucketResults :
               LET key == IF cmd.key # None THEN cmd.key[1]
                          ELSE get_folder_prefix \o file_name(cmd.file)
                   io2 == log(out, io1, "info",
                              "Key: " \o key \o ", Content-Type: " \o content_type(cmd.file)
                              \o ", Size: " \o ToString(file_size) \o " bytes")
               IN /\ UNCHANGED result
                  /\ IF b.is_err
                     THEN /\ Continue(error(out, io2,
                                 with_op(sys("CONFIG_ERROR", "Failed to configure R2: " \o b.e),
                                         "r2.upload")), "return_ok")
                          /\ UNCHANGED local
                     ELSE /\ Continue(io2, "r2_upload_put")
                          /\ local' = [handler |-> "r2_upload", key |-> key,
                                       file_size |-> file_size, bucket |-> b.name]
    /\ UNCHANGED env /\ Frame

PutStatuses == {200, 403}

\* r2.rs:113-146  put_object_with_content_type
R2UploadPut ==
    /\ pc = "r2_upload_put"
    /\ env' = Sent("PUT", local.bucket \o "/" \o local.key)
    /\ \/ \E st \in PutStatuses :
            IF st = 200
            THEN Continue(result_(out, IO,
                     [success |-> TRUE, key |-> local.key, size |-> local.file_size,
                      content_type |-> content_type(cmd.file),
                      public_url |-> IF cmd.public THEN get_public_url \o "/" \o local.key ELSE "",
                      bucket |-> local.bucket]), "return_ok")
            ELSE Continue(error(out, IO,
                     with_details(with_op(ext("UPLOAD_FAILED",
                             "Upload failed with status: " \o ToString(st)), "r2.upload"),
                         [status |-> st, key |-> local.key])), "return_ok")
       \/ Continue(error(out, IO,
              with_details(with_op(net("UPLOAD_FAILED", "Upload failed: connection error"),
                                   "r2.upload"),
                  [file |-> cmd.file, key |-> local.key])), "return_ok")
    /\ UNCHANGED <<result, local>> /\ Frame

Obj(k) == [key |-> k, size |-> 3, last_modified |-> "2026-01-01T00:00:00Z"]

\* the pages bucket.list returns
Listings ==
    {<<>>,
     <<<<Obj("a"), Obj("b")>>>>,
     <<<<Obj("a")>>, <<Obj("b"), Obj("c")>>>>}

object_json(obj) ==
    [key |-> obj.key, size |-> obj.size, last_modified |-> obj.last_modified,
     public_url |-> get_public_url \o "/" \o obj.key]

RECURSIVE push_contents_past_limit(_, _, _)
push_contents_past_limit(objects, contents, limit) ==
    IF contents = <<>> \/ Len(objects) > limit THEN objects
    ELSE push_contents_past_limit(Append(objects, object_json(Head(contents))), Tail(contents), limit)

\* r2.rs:168-178  the inner loop: stops at the first object met with the list full
RECURSIVE push_contents(_, _, _)
push_contents(objects, contents, limit) ==
    IF contents = <<>> \/ Len(objects) >= limit THEN objects
    ELSE push_contents(Append(objects, object_json(Head(contents))), Tail(contents), limit)

\* r2.rs:167-179  the outer loop over the pages
RECURSIVE collect_objects(_, _, _)
collect_objects(objects, results, limit) ==
    IF results = <<>> THEN objects
    ELSE collect_objects(push_contents(objects, Head(results), limit), Tail(results), limit)

\* the first failure of get_bucket in list / delete / info
ConfigError(io, b, op) ==
    error(out, io, with_op(sys("CONFIG_ERROR", "Failed to configure R2: " \o b.e), op))

\* r2.rs:149-195
R2List ==
    /\ pc = "r2_list"
    /\ \E b \in BucketResults :
         LET io1 == log(out, IO, "info", "Listing objects with prefix: '" \o cmd.prefix \o "'")
         IN IF b.is_err
            THEN Continue(ConfigError(io1, b, "r2.list"), "return_ok") /\ UNCHANGED <<env, local>>
            ELSE /\ env' = Sent("GET", b.name \o "?prefix=" \o cmd.prefix)
                 /\ \/ \E results \in Listings :
                         LET objects == collect_objects(<<>>, results, cmd.limit)
                         IN /\ local' = [handler |-> "r2_list", results |-> results]
                            /\ Continue(result_(out, io1,
                                   [success |-> TRUE, count |-> Len(objects),
                                    prefix |-> cmd.prefix, objects |-> objects]), "return_ok")
                    \/ /\ UNCHANGED local
                       /\ Continue(error(out, io1,
                              with_op(net("LIST_FAILED", "Failed to list objects: connection error"),
                                      "r2.list")), "return_ok")
    /\ UNCHANGED result /\ Frame

DeleteStatuses == {200, 204, 403}

\* r2.rs:197-233
R2Delete ==
    /\ pc = "r2_delete"
    /\ \E b \in BucketResults :
         LET io1 == log(out, IO, "info", "Deleting object: " \o cmd.key)
         IN IF b.is_err
            THEN Continue(ConfigError(io1, b, "r2.delete"), "return_ok") /\ UNCHANGED env
            ELSE /\ env' = Sent("DELETE", b.name \o "/" \o cmd.key)
                 /\ \/ \E st \in DeleteStatuses :
                         IF st = 204 \/ st = 200
                         THEN Continue(result_(out, io1,
                                  [success |-> TRUE, deleted |-> TRUE, key |-> cmd.key]), "return_ok")
                         ELSE Continue(error(out, io1,
                                  with_details(with_op(ext("DELETE_FAILED",
                                          "Delete failed with status: " \o ToString(st)), "r2.delete"),
                                      [status |-> st, key |-> cmd.key])), "return_ok")
                    \/ Continue(error(out, io1,
                           with_details(with_op(net("DELETE_FAILED",
                                   "Failed to delete object: connection error"), "r2.delete"),
                               [key |-> cmd.key])), "return_ok")
    /\ UNCHANGED <<result, local>> /\ Frame

Head1 == [content_length |-> 3, content_type |-> Some("image/png"),
          last_modified |-> None, e_tag |-> Some("etag-1")]

\* head_object: Ok((head, status)) or Err(text)
HeadResults ==
    {[is_err |-> FALSE, head |-> Head1, status |-> st] : st \in {200, 404}}
    \cup {[is_err |-> TRUE, not_found |-> nf] : nf \in BOOLEAN}

\* r2.rs:235-286
R2Info ==
    /\ pc = "r2_info"
    /\ \E b \in BucketResults :
         LET io1 == log(out, IO, "info", "Getting info for: " \o cmd.key)
         IN IF b.is_err
            THEN Continue(ConfigError(io1, b, "r2.info"), "return_ok") /\ UNCHANGED env
            ELSE /\ env' = Sent("HEAD", b.name \o "/" \o cmd.key)
                 /\ \E r \in HeadResults :
                      IF ~r.is_err /\ r.status = 200
                      THEN Continue(result_(out, io1,
                               [success |-> TRUE, key |-> cmd.key, exists |-> TRUE,
                                size |-> r.head.content_length,
                                content_type |-> unwrap_or(r.head.content_type, ""),
                                last_modified |-> unwrap_or(r.head.last_modified, ""),
                                etag |-> unwrap_or(r.head.e_tag, ""),
                                public_url |-> get_public_url \o "/" \o cmd.key]), "return_ok")
                      ELSE IF ~r.is_err \/ r.not_found
                      THEN Continue(result_(out, io1,
                               [success |-> TRUE, key |-> cmd.key, exists |-> FALSE]), "return_ok")
                      ELSE Continue(error(out, io1,
                               with_details(with_op(net("INFO_FAILED",
                                       "Failed to get object info: connection error"), "r2.info"),
                                   [key |-> cmd.key])), "return_ok")
    /\ UNCHANGED <<result, local>> /\ Frame

-----------------------------------------------------------------------------
(* One invocation: any command line of the model *)

Commands ==
    DnsCommands \cup CaddyCommands \cup ServiceCommands \cup RegistryCommands \cup R2Commands

CliInputs ==
    {[agent |-> a, manifest |-> m, verbose |-> FALSE, command |-> c] :
        a \in BOOLEAN, m \in BOOLEAN, c \in {None} \cup {Some(x) : x \in Commands}}

Init ==
    /\ cli \in CliInputs
    /\ out = NoOutput
    /\ pc = "main"
    /\ stdout = <<>>
    /\ stderr = <<>>
    /\ events = <<>>
    /\ status = Running
    /\ result = NoResult
    /\ err = NoErr
    /\ chain = <<>>
    /\ env \in {[InitEnv EXCEPT !.registry = f] : f \in RegistryFiles}
    /\ local = NoLocal

Next ==
    \/ MainManifest
    \/ MainNewOutput
    \/ MainNoCommand
    \/ MainDispatch
    \/ MainResult
    \/ MainReturn
    \/ ReturnOk
    \/ DnsRun
    \/ DnsList
    \/ DnsListSend
    \/ DnsGet
    \/ DnsGetSend
    \/ DnsCreate
    \/ DnsCreateSend
    \/ DnsDelete
    \/ DnsDeleteSend
    \/ DnsDeleteRequest
    \/ CaddyRun
    \/ CaddyAdd
    \/ CaddyAddValidate
    \/ CaddyAddLb
    \/ CaddyAddLbValidate
    \/ CaddyReload
    \/ CaddyValidate
    \/ ServiceRun
    \/ ServiceCheck
    \/ ServiceHealth
    \/ ServiceHealthSend
    \/ ServiceDockerPs
    \/ ServicePm2List
    \/ RegistryRun
    \/ RegistryValidate
    \/ RegistryAdd
    \/ RegistryStats
    \/ R2Run
    \/ R2Upload
    \/ R2UploadPut
    \/ R2List
    \/ R2Delete
    \/ R2Info

Spec == Init /\ [][Next]_vars

-----------------------------------------------------------------------------
(* A session: the registry commands run one after the other over the same   *)
(* registry.json, which starts as one that validate accepts.                *)

SessionInputs ==
    {[agent |-> a, manifest |-> FALSE, verbose |-> FALSE, command |-> Some(c)] :
        a \in BOOLEAN,
        c \in {x \in RegistryCommands : x.action \in {"add", "validate"}}}

InitSession ==
    /\ cli \in SessionInputs
    /\ out = NoOutput
    /\ pc = "main"
    /\ stdout = <<>>
    /\ stderr = <<>>
    /\ events = <<>>
    /\ status = Running
    /\ result = NoResult
    /\ err = NoErr
    /\ chain = <<>>
    /\ env = [InitEnv EXCEPT !.registry = [state |-> "ok", value |-> Reg0]]
    /\ local = NoLocal

\* the process has ended and the program is started again
Restart ==
    /\ pc \in {"returned", "exited"}
    /\ env.invocation < MaxInvocations
    /\ cli' \in SessionInputs
    /\ out' = NoOutput
    /\ pc' = "main"
    /\ stdout' = <<>>
    /\ stderr' = <<>>
    /\ events' = <<>>
    /\ status' = Running
    /\ result' = NoResult
    /\ local' = NoLocal
    /\ env' = [env EXCEPT !.invocation = @ + 1]
    /\ UNCHANGED <<err, chain>>

NextSession ==
    \/ MainNewOutput
    \/ MainDispatch
    \/ MainResult
    \/ MainReturn
    \/ ReturnOk
    \/ RegistryRun
    \/ RegistryValidate
    \/ RegistryAdd
    \/ Restart

SpecSession == InitSession /\ [][NextSession]_vars

\* CLAIMS
-----------------------------------------------------------------------------
(* Helpers for reading what was written *)

HasKey(pairs, key) == \E i \in 1..Len(pairs) : pairs[i][1] = key

Get(pairs, key) == pairs[CHOOSE i \in 1..Len(pairs) : pairs[i][1] = key][2]

Keys(pairs) == [i \in 1..Len(pairs) |-> pairs[i][1]]

EventTypes == {"log", "progress", "result", "error"}

\* a stdout line that is one complete envelope {"v":1,"type":..,"payload":..}
IsEnvelope(line) ==
    /\ "json" \in DOMAIN line
    /\ Keys(line.json) = <<"v", "type", "payload">>
    /\ Get(line.json, "v") = 1
    /\ Get(line.json, "type") \in EventTypes

\* the policy table of the specification, by factory
ExitCodeTable(fn) ==
    CASE fn = "net" -> 2
      [] fn = "input" -> 1
      [] fn = "auth" -> 3
      [] fn = "ext" -> 2
      [] fn = "sys" -> 2
      [] fn = "timeout" -> 4

PolicyTable(c) ==
    CASE c.fn = "net" -> [cat |-> "net", retryable |-> TRUE, retry_after_s |-> Some(5), fix |-> <<"proxy", "wait">>]
      [] c.fn = "input" -> [cat |-> "in", retryable |-> FALSE, retry_after_s |-> None, fix |-> <<"param">>]
      [] c.fn = "auth" -> [cat |-> "auth", retryable |-> FALSE, retry_after_s |-> None, fix |-> <<"auth">>]
      [] c.fn = "ext" -> [cat |-> "ext", retryable |-> TRUE, retry_after_s |-> Some(5), fix |-> <<"wait", "report">>]
      [] c.fn = "sys" -> [cat |-> "sys", retryable |-> FALSE, retry_after_s |-> None, fix |-> <<"report">>]
      [] c.fn = "timeout" -> [cat |-> "time", retryable |-> TRUE, retry_after_s |-> Some(c.retry_after), fix |-> <<"wait">>]

-----------------------------------------------------------------------------
\* C1: an error built by any category factory and annotated by any sequence
\* of with_op / with_details calls has the exit code of the policy table
\* (net 2, in 1, auth 3, ext 2, sys 2, time 4), whatever its code, message,
\* op and details; and the process that reports it exits with that code.
C1_ExitCodeByCategory ==
    chain # <<>> =>
        /\ exit_code(err) = ExitCodeTable(chain[1].fn)
        /\ status # Running => status = ExitCodeTable(chain[1].fn)

C1_Witness ==
    /\ pc = "exited"
    /\ Len(chain) >= 3
    /\ chain[1].fn = "timeout"
    /\ \E i \in 1..Len(chain) : chain[i].fn = "with_op"
    /\ \E i \in 1..Len(chain) : chain[i].fn = "with_details"
    /\ status = 4

\* C2: right after a factory call the error has the factory's cat,
\* retryable, retry_after_s and fix of the policy table, code and message
\* equal to the arguments, and op, trace_id and details absent.
C2_FactoryPolicy ==
    Len(chain) = 1 =>
        LET c == chain[1]
            p == PolicyTable(c)
        IN err = [code |-> c.code, cat |-> p.cat, op |-> None,
                  retryable |-> p.retryable, retry_after_s |-> p.retry_after_s,
                  fix |-> p.fix, message |-> Some(c.message),
                  trace_id |-> None, details |-> None]

C2_Witness ==
    /\ Len(chain) = 1
    /\ chain[1].fn = "timeout"
    /\ chain[1].retry_after = 10
    /\ err.retry_after_s = Some(10)

\* C10: in machine mode every call of log, progress, result and error wrote
\* exactly one record, with v = 1 and type equal to the operation called; the
\* log payload is {level, message} and the progress payload is
\* {percent, message}, holding the caller's values.
C10_OneRecordPerCall ==
    out.agent_mode =>
        /\ Len(stdout) = Len(events)
        /\ \A i \in 1..Len(events) :
             LET line == stdout[i]
                 ev == events[i]
             IN /\ "json" \in DOMAIN line
                /\ HasKey(line.json, "v") /\ Get(line.json, "v") = 1
                /\ HasKey(line.json, "type") /\ Get(line.json, "type") = ev.type
                /\ HasKey(line.json, "payload")
                /\ ev.type = "log" =>
                     Get(line.json, "payload") = [level |-> ev.level, message |-> ev.message]
                /\ ev.type = "progress" =>
                     Get(line.json, "payload") = [percent |-> ev.percent, message |-> ev.message]

C10_Witness ==
    /\ out.agent_mode
    /\ Len(events) = 2
    /\ events[1].type = "progress" /\ events[1].percent = 255
    /\ events[2].type = "error"
    /\ Len(stdout) = 2

-----------------------------------------------------------------------------
(* Reading one invocation *)

Terminal(ev) == ev.type \in {"result", "error"}

TerminalEvents == {i \in 1..Len(events) : Terminal(events[i])}

ErrorEvents == {i \in 1..Len(events) : events[i].type = "error"}

Ended == status # Running

\* the invocation dispatched a command: main passed the manifest check and the
\* match on cli.command
Dispatched == out.constructed /\ cli.command # None

HandlerFailed == result.returned /\ result.is_err

LastEvent == events[Len(events)]

\* C3: an invocation that dispatched a command has emitted exactly one
\* terminal event (one result or one error) when the process has ended.
C3_ExactlyOneTerminalEvent ==
    (Ended /\ Dispatched) => Cardinality(TerminalEvents) = 1

\* C4: a call of Output::error renders the error and ends the process with
\* the exit code of the error's category: the error is the last thing the
\* process did, nothing runs in a process that has ended.
C4_ErrorIsRenderedThenExits ==
    /\ [](ErrorEvents # {} =>
            /\ pc = "exited"
            /\ LastEvent.type = "error"
            /\ status = exit_code(LastEvent.err)
            /\ IF out.agent_mode
               THEN /\ stdout # <<>>
                    /\ IsEnvelope(stdout[Len(stdout)])
                    /\ Get(stdout[Len(stdout)].json, "type") = "error"
               ELSE /\ stderr # <<>>
                    /\ stderr[Len(stderr)] = TextLine("  Fix: " \o DebugVec(LastEvent.err.fix)))
    /\ [][status = Running]_vars

C4_Witness ==
    /\ pc = "exited"
    /\ ~out.agent_mode
    /\ events # <<>>
    /\ LastEvent.type = "error"
    /\ LastEvent.err.code = "RECORD_EXISTS"
    /\ LastEvent.err.op = Some("dns.create")
    /\ status = 1

\* C5: once a result or an error event has been emitted no further event is
\* emitted: a terminal event is always the last event of the invocation.
C5_TerminalEventIsLast ==
    \A i \in 1..Len(events) : Terminal(events[i]) => i = Len(events)

C5_Witness ==
    /\ pc = "returned"
    /\ Len(events) = 3
    /\ events[1].type = "log" /\ events[2].type = "log" /\ events[3].type = "result"
    /\ cmd.cmd = "r2" /\ cmd.action = "upload"

\* C6: a process that ended with a non-zero exit code rendered exactly one
\* error event, and the exit code is the one of that error's category.
C6_NonZeroExitOnlyThroughError ==
    (Ended /\ status # 0) =>
        /\ Cardinality(ErrorEvents) = 1
        /\ \A i \in ErrorEvents : status = exit_code(events[i].err)

\* C7: when the handler returned Err to main, main reports exactly one error,
\* sys / INTERNAL with the fault's text, not retryable, fix [report], no op
\* and no details, and the process exits with code 2.
C7_InternalError ==
    HandlerFailed =>
        /\ pc \in {"main_result", "exited"}
        /\ pc = "main_result" => ErrorEvents = {}
        /\ pc = "exited" =>
             /\ Cardinality(ErrorEvents) = 1
             /\ LastEvent = [type |-> "error",
                             err |-> [code |-> "INTERNAL", cat |-> "sys", op |-> None,
                                      retryable |-> FALSE, retry_after_s |-> None,
                                      fix |-> <<"report">>, message |-> Some(result.e),
                                      trace_id |-> None, details |-> None]]
             /\ status = 2

C7_Witness ==
    /\ HandlerFailed
    /\ pc = "exited"
    /\ result.e = "Failed to read file"
    /\ LastEvent.type = "error"
    /\ status = 2

\* C8: no failure a handler can detect is propagated to main: no handler
\* returns Err, and no error event is the generic sys / INTERNAL one.
C8_NoFailurePropagated ==
    /\ ~HandlerFailed
    /\ \A i \in ErrorEvents : events[i].err.code # "INTERNAL"

\* C9: invoked with --agent, every line the process writes to standard
\* output is one complete single-line envelope.
C9_AgentStdoutOnlyEnvelopes ==
    cli.agent => \A i \in 1..Len(stdout) : IsEnvelope(stdout[i])

-----------------------------------------------------------------------------
(* Reading the error that was built and reported *)

PolicyFields == {"code", "cat", "retryable", "retry_after_s", "fix", "message", "trace_id"}

OptionalFields == {"op", "retry_after_s", "trace_id", "details"}

\* C11: every error that reached the channel has retry_after_s present
\* exactly when it is retryable: 5 for net and ext, the value given to the
\* factory for time, absent for in, auth and sys.
C11_RetryAfterIffRetryable ==
    \A i \in ErrorEvents :
        LET e == events[i].err
        IN /\ (e.retry_after_s # None) <=> e.retryable
           /\ e.cat \in {"net", "ext"} => e.retry_after_s = Some(5)
           /\ e.cat = "time" => e.retry_after_s = Some(chain[1].retry_after)
           /\ e.cat \in {"in", "auth", "sys"} => e.retry_after_s = None
           /\ e.cat \in {"net", "ext", "time", "in", "auth", "sys"}

C11_Witness ==
    /\ pc = "exited"
    /\ Len(chain) = 3
    /\ LastEvent.type = "error"
    /\ LastEvent.err.cat = "time"
    /\ LastEvent.err.retryable
    /\ LastEvent.err.retry_after_s = Some(10)
    /\ LastEvent.err.details # None

\* C12: with_op changes only op and with_details changes only details: after
\* any chain of them the seven policy fields, and so the exit code, are
\* those the factory set.
C12_AnnotationFrame ==
    /\ [](chain # <<>> =>
            /\ \A k \in PolicyFields : err[k] = Build(chain[1])[k]
            /\ exit_code(err) = exit_code(Build(chain[1])))
    /\ [][(Len(chain') = Len(chain) + 1 /\ chain'[Len(chain')].fn = "with_op")
            => err' = [err EXCEPT !.op = Some(chain'[Len(chain')].op)]]_vars
    /\ [][(Len(chain') = Len(chain) + 1 /\ chain'[Len(chain')].fn = "with_details")
            => err' = [err EXCEPT !.details = Some(chain'[Len(chain')].details)]]_vars

C12_Witness ==
    /\ Len(chain) = 3
    /\ chain[1].fn = "ext"
    /\ chain[2].fn = "with_details"
    /\ chain[3].fn = "with_op"
    /\ err.op = Some("dns.create")
    /\ err.details = Some([domain |-> "example.com"])
    /\ err.retry_after_s = Some(5)

\* C13: in the machine-mode error record each of op, retry_after_s, trace_id
\* and details is a key exactly when it is set on the error, with the value
\* set; an absent field is left out.
C13_OptionalFieldsOmitted ==
    out.agent_mode =>
        \A i \in ErrorEvents :
            LET e == events[i].err
                p == Get(stdout[i].json, "payload")
            IN \A k \in OptionalFields :
                 /\ HasKey(p, k) <=> e[k] # None
                 /\ HasKey(p, k) => Get(p, k) = e[k][1]

C13_Witness ==
    /\ out.agent_mode
    /\ pc = "exited"
    /\ LastEvent.type = "error"
    /\ LastEvent.err.cat = "in"
    /\ LastEvent.err.op = Some("dns.create")
    /\ LastEvent.err.details = None
    /\ Keys(Get(stdout[Len(stdout)].json, "payload"))
         = <<"code", "cat", "op", "retryable", "fix", "message">>

\* C14: error(net("SSH_FAILED", "connection refused")) in machine mode
\* writes one stdout line with keys v, type, payload and, in the payload,
\* code, cat, retryable, retry_after_s, fix, message holding SSH_FAILED, net,
\* true, 5, [proxy, wait], connection refused; the process exits with 2.
C14_SshFailedScenario ==
    (/\ out.agent_mode
     /\ chain = <<[fn |-> "net", code |-> "SSH_FAILED", message |-> "connection refused"]>>
     /\ events # <<>>
     /\ LastEvent.type = "error") =>
        /\ Len(stdout) = Len(events)
        /\ LET line == stdout[Len(stdout)].json
               p == Get(line, "payload")
           IN /\ Keys(line) = <<"v", "type", "payload">>
              /\ Get(line, "v") = 1
              /\ Get(line, "type") = "error"
              /\ Keys(p) = <<"code", "cat", "retryable", "retry_after_s", "fix", "message">>
              /\ Get(p, "code") = "SSH_FAILED"
              /\ Get(p, "cat") = "net"
              /\ Get(p, "retryable") = TRUE
              /\ Get(p, "retry_after_s") = 5
              /\ Get(p, "fix") = <<"proxy", "wait">>
              /\ Get(p, "message") = "connection refused"
        /\ status = 2
        /\ pc = "exited"

C14_Witness ==
    /\ out.agent_mode
    /\ chain = <<[fn |-> "net", code |-> "SSH_FAILED", message |-> "connection refused"]>>
    /\ Len(events) = 1
    /\ LastEvent.type = "error"
    /\ Len(stdout) = 1
    /\ status = 2

-----------------------------------------------------------------------------
(* Reading one channel call: the step that appended an event *)

Appended(old, new_) == SubSeq(new_, Len(old) + 1, Len(new_))

IsPrefix(old, new_) == Len(old) <= Len(new_) /\ SubSeq(new_, 1, Len(old)) = old

\* C15: in human mode log, progress and error write only to stderr and
\* result only to stdout; in machine mode every operation writes one line to
\* stdout and the channel writes nothing to stderr.
C15_StreamRouting ==
    /\ [](out.agent_mode => stderr = <<>>)
    /\ [][Len(events') = Len(events) + 1 =>
            /\ IsPrefix(stdout, stdout') /\ IsPrefix(stderr, stderr')
            /\ IF out.agent_mode
               THEN /\ stderr' = stderr
                    /\ Len(stdout') = Len(stdout) + 1
               ELSE IF events'[Len(events')].type = "result"
                    THEN /\ stderr' = stderr
                         /\ Len(stdout') > Len(stdout)
                    ELSE /\ stdout' = stdout
                         /\ Len(stderr') > Len(stderr)]_vars

C15_Witness ==
    /\ ~out.agent_mode
    /\ Len(events) = 2
    /\ events[1].type = "log"
    /\ events[2].type = "result"
    /\ Len(stderr) = 1
    /\ Len(stdout) >= 1

\* C16: the mode is the one given to Output::new at start and no step
\* changes it: in machine mode stdout holds one envelope per event and
\* nothing else, in human mode stdout holds no envelope.
C16_ModeFixed ==
    /\ [](out.constructed =>
            /\ out.agent_mode = cli.agent
            /\ IF out.agent_mode
               THEN /\ Len(stdout) = Len(events)
                    /\ \A i \in 1..Len(stdout) : IsEnvelope(stdout[i])
                    /\ stderr # <<>> => status \in {1, 101} /\ Len(stderr) = 1
               ELSE \A i \in 1..Len(stdout) : "json" \notin DOMAIN stdout[i])
    /\ [][out.constructed => out' = out]_vars
    /\ [][cli' = cli]_vars

C16_Witness ==
    /\ out.constructed
    /\ out.agent_mode
    /\ pc = "returned"
    /\ Len(events) = 3
    /\ Len(stdout) = 3
    /\ \A i \in 1..3 : IsEnvelope(stdout[i])

\* C17: a call of result leaves the process running, at the handler's
\* return; an invocation that reported a result ends only by main returning,
\* with exit code 0.
C17_ResultThenExitZero ==
    /\ []((\E i \in 1..Len(events) : events[i].type = "result") =>
            /\ status \in {Running, 0}
            /\ pc \in {"return_ok", "main_result", "main_end", "returned"}
            /\ Ended => (pc = "returned" /\ status = 0))
    /\ [][(Len(events') = Len(events) + 1 /\ events'[Len(events')].type = "result")
            => (status' = Running /\ pc' = "return_ok")]_vars

C17_Witness ==
    /\ pc = "returned"
    /\ status = 0
    /\ out.constructed
    /\ ~out.agent_mode
    /\ events # <<>>
    /\ LastEvent.type = "result"
    /\ cmd.cmd = "registry"

\* the object a pretty-printed text denotes
MemberIndexes(lines) == {i \in 1..Len(lines) : "member" \in DOMAIN lines[i]}

ReadPretty(lines) ==
    [k \in {lines[i].member : i \in MemberIndexes(lines)} |->
        lines[CHOOSE i \in MemberIndexes(lines) : lines[i].member = k].value]

\* C18: result emits its data verbatim: in machine mode the payload of the
\* one record written equals the data, in human mode the lines written to
\* stdout are the pretty-printed object with exactly the members of the data.
C18_ResultVerbatim ==
    [][(Len(events') = Len(events) + 1 /\ events'[Len(events')].type = "result") =>
         LET data == events'[Len(events')].data
             lines == Appended(stdout, stdout')
         IN IF out.agent_mode
            THEN /\ Len(lines) = 1
                 /\ IsEnvelope(lines[1])
                 /\ Get(lines[1].json, "type") = "result"
                 /\ Get(lines[1].json, "payload") = data
            ELSE /\ Len(lines) = Cardinality(DOMAIN data) + 2
                 /\ lines[1] = TextLine("{")
                 /\ lines[Len(lines)] = TextLine("}")
                 /\ MemberIndexes(lines) = 2..(Len(lines) - 1)
                 /\ ReadPretty(lines) = data]_vars

C18_Witness ==
    /\ ~out.agent_mode
    /\ Len(events) = 1
    /\ LastEvent.type = "result"
    /\ DOMAIN LastEvent.data = {"domain", "count", "records"}
    /\ Len(stdout) = 5
    /\ ReadPretty(stdout) = [domain |-> "example.com", count |-> 0, records |-> <<>>]

\* C19: in human mode an error is shown as the category/code/message line,
\* then the retry line exactly when the error is retryable, then the fix
\* line, and the fix list is never empty.
C19_HumanErrorLines ==
    (~out.agent_mode /\ events # <<>> /\ LastEvent.type = "error") =>
        LET e == LastEvent.err
            k == IF e.retryable THEN 3 ELSE 2
            n == Len(stderr)
            first == TextLine("Error [" \o e.cat \o "][" \o e.code \o "]: " \o e.message[1])
            fix == TextLine("  Fix: " \o DebugVec(e.fix))
        IN /\ n = Cardinality({i \in 1..Len(events) : events[i].type \in {"log", "progress"}}) + k
           /\ stderr[n - k + 1] = first
           /\ e.retryable =>
                stderr[n - 1] = TextLine("  Retry after: " \o ToString(e.retry_after_s[1]) \o "s")
           /\ stderr[n] = fix
           /\ e.fix # <<>>

C19_Witness ==
    /\ ~out.agent_mode
    /\ pc = "exited"
    /\ LastEvent.type = "error"
    /\ LastEvent.err.cat = "time"
    /\ Len(stderr) = 3
    /\ stderr[2] = TextLine("  Retry after: 10s")
    /\ stderr[3] = TextLine("  Fix: [\"wait\"]")

\* a u64 equals a u32
U64Equals(n, m) == n.hi = 0 /\ n.lo = m

\* C20: a health check that timed out reports cat time, code TIMEOUT,
\* retry_after_s equal to the --timeout value, and exits with code 4.
C20_TimeoutRetryAfter ==
    \A i \in ErrorEvents :
        events[i].err.code = "TIMEOUT" =>
            /\ events[i].err.cat = "time"
            /\ events[i].err.retry_after_s # None
            /\ U64Equals(cmd.timeout, events[i].err.retry_after_s[1])
            /\ status = 4

-----------------------------------------------------------------------------
(* Reading the registry file *)

C22_AddKeepsRegistryValid ==
    (/\ cli.command # None
     /\ cmd.action = "validate"
     /\ events # <<>>
     /\ LastEvent.type = "result") =>
        /\ LastEvent.data.valid
        /\ LastEvent.data.issues = <<>>

\* C23: when caddy add or caddy add-lb has ended with an error event the
\* remote Caddyfile is as it was before the run (empty here): a block is in
\* the file only when the command reported a result.
C23_CaddyErrorLeavesFile ==
    (/\ cli.command # None
     /\ cmd.cmd = "caddy"
     /\ cmd.action \in {"add", "add-lb"}
     /\ events # <<>>
     /\ LastEvent.type = "error") =>
        env.caddyfile = <<>>

\* the ssh process of service check did not run the remote command
SshFailed(r) == r.is_err \/ r.exit = 255

\* C24: service check reports listening: false only when the remote command
\* ran and found no listener; when the ssh process failed it reports the
\* net / SSH_FAILED error and exits with code 2.
C24_CheckSshFailure ==
    (/\ cli.command # None
     /\ cmd.cmd = "service"
     /\ cmd.action = "check"
     /\ local # NoLocal) =>
        /\ (LastEvent.type = "result" /\ ~LastEvent.data.listening) => ~SshFailed(local.ssh)
        /\ SshFailed(local.ssh) =>
             /\ LastEvent.type = "error"
             /\ LastEvent.err.code = "SSH_FAILED"
             /\ LastEvent.err.cat = "net"
             /\ status = 2

\* the objects of all pages, in listing order
RECURSIVE Flatten(_)
Flatten(pages) == IF pages = <<>> THEN <<>> ELSE Head(pages) \o Flatten(Tail(pages))

Min(a, b) == IF a <= b THEN a ELSE b

\* C25: r2 list reports at most limit objects, they are the first
\* min(limit, total) objects of the listing in order, and count is the
\* length of the objects list.
C25_ListLimit ==
    (/\ cli.command # None
     /\ cmd.cmd = "r2"
     /\ cmd.action = "list"
     /\ events # <<>>
     /\ LastEvent.type = "result") =>
        LET all == Flatten(local.results)
            objects == LastEvent.data.objects
        IN /\ Len(objects) <= cmd.limit
           /\ Len(objects) = Min(cmd.limit, Len(all))
           /\ \A i \in 1..Len(objects) :
                /\ objects[i].key = all[i].key
                /\ objects[i].size = all[i].size
                /\ objects[i].last_modified = all[i].last_modified
           /\ LastEvent.data.count = Len(objects)

C25_Witness ==
    /\ pc = "returned"
    /\ cli.command # None
    /\ cmd.cmd = "r2"
    /\ cmd.action = "list"
    /\ cmd.limit = 2
    /\ local # NoLocal
    /\ Len(local.results) = 2
    /\ Len(Flatten(local.results)) = 3
    /\ LastEvent.type = "result"
    /\ LastEvent.data.count = 2
    /\ LastEvent.data.objects[2].key = "b"

\* the handler of dns delete has read its credentials
InDnsDelete ==
    /\ cli.command # None
    /\ cmd.cmd = "dns"
    /\ cmd.action = "delete"
    /\ local # NoLocal

DeleteSearchUrl ==
    CF_API_BASE \o "/zones/" \o local.zone_id \o "/dns_records?name=" \o fqdn(cmd.name, cmd.domain)

\* C26: dns delete searches for the record by its name first; it sends a
\* delete request only after a search that answered with at least one record,
\* and for the id of the first of them; it reports deleted: true only when
\* the provider accepted that delete, and when the search answers with no
\* record it reports deleted: false without sending a delete request.
C26_DeleteOrder ==
    InDnsDelete =>
        LET reqs == env.requests
            resps == local.responses
            found == unwrap_or_default(resps[1].result)
        IN /\ Len(reqs) <= 2
           /\ Len(reqs) >= 1 => reqs[1] = [method |-> "GET", url |-> DeleteSearchUrl]
           /\ Len(reqs) = 2 =>
                /\ Len(resps) >= 1
                /\ found # <<>>
                /\ reqs[2] = [method |-> "DELETE",
                              url |-> CF_API_BASE \o "/zones/" \o local.zone_id
                                      \o "/dns_records/" \o found[1].id]
           /\ (LastEvent.type = "result" /\ LastEvent.data.deleted) =>
                /\ Len(reqs) = 2
                /\ Len(resps) = 2
                /\ resps[2].success
                /\ LastEvent.data.record_id = found[1].id
           /\ (Len(resps) >= 1 /\ found = <<>>) =>
                /\ Len(reqs) = 1
                /\ LastEvent.type = "result"
                /\ ~LastEvent.data.deleted

\* a search that found two records was followed by an accepted delete
C26_Witness ==
    /\ InDnsDelete
    /\ Len(local.responses) = 2
    /\ Len(unwrap_or_default(local.responses[1].result)) = 2
    /\ local.responses[2].success
    /\ LastEvent.type = "result"
    /\ LastEvent.data.deleted
    /\ Len(env.requests) = 2

\* the provider answered dns create, and the answer is the first of the run
InDnsCreateAnswered ==
    /\ cli.command # None
    /\ cmd.cmd = "dns"
    /\ cmd.action = "create"
    /\ local # NoLocal
    /\ local.responses # <<>>

\* the provider messages of the model that contain the words "already exists"
SaysAlreadyExists == {"An A record with that host already exists"}

\* the provider says the record exists: by its text or by code 81057
RecordExists(errors) ==
    \E i \in 1..Len(errors) :
        errors[i].message \in SaysAlreadyExists \/ errors[i].code = 81057

\* C27: when the provider rejects dns create (success = false) the command
\* reports input/RECORD_EXISTS (exit code 1, retryable false, no
\* retry_after_s) if and only if the joined provider error text contains
\* "already exists" or some provider error has code 81057; every other
\* rejection is reported as ext/CF_API_ERROR (exit code 2, retry_after_s 5);
\* op is dns.create in both cases.
C27_CreateRejected ==
    (InDnsCreateAnswered /\ ~local.responses[1].success) =>
        /\ LastEvent.type = "error"
        /\ LastEvent.err.op = Some("dns.create")
        /\ IF RecordExists(local.responses[1].errors)
           THEN /\ LastEvent.err.cat = "in"
                /\ LastEvent.err.code = "RECORD_EXISTS"
                /\ ~LastEvent.err.retryable
                /\ LastEvent.err.retry_after_s = None
                /\ status = 1
           ELSE /\ LastEvent.err.cat = "ext"
                /\ LastEvent.err.code = "CF_API_ERROR"
                /\ LastEvent.err.retry_after_s = Some(5)
                /\ status = 2

\* a rejection whose only sign of an existing record is the text of the error
C27_Witness ==
    /\ InDnsCreateAnswered
    /\ ~local.responses[1].success
    /\ \A i \in 1..Len(local.responses[1].errors) : local.responses[1].errors[i].code # 81057
    /\ RecordExists(local.responses[1].errors)
    /\ LastEvent.type = "error"
    /\ LastEvent.err.code = "RECORD_EXISTS"
    /\ status = 1

\* a dns handler has read its credentials
InDns ==
    /\ cli.command # None
    /\ cmd.cmd = "dns"
    /\ local # NoLocal

\* the provider reported a failure on some request of this invocation
ProviderFailed == \E i \in 1..Len(local.responses) : ~local.responses[i].success

\* C28: in dns list, get, create and delete every provider response parsed
\* with success = false leads to an error event and a non-zero exit code, and
\* no dns action emits a result with success: true after the provider
\* reported a failure on any request of the invocation.
C28_ProviderFailureIsError ==
    (InDns /\ ProviderFailed) =>
        /\ \A i \in 1..Len(events) :
             events[i].type = "result" => ~events[i].data.success
        /\ pc \in {"return_ok", "returned", "exited"} =>
             /\ LastEvent.type = "error"
             /\ status \notin {Running, 0}

\* the request of service health has had its outcome
HealthAnswered ==
    /\ cli.command # None
    /\ cmd.cmd = "service"
    /\ cmd.action = "health"
    /\ local # NoLocal

\* C29: service health classifies every request outcome into exactly one
\* terminal event: a received response gives a result with healthy true
\* if and only if 200 <= status < 400; a timeout gives a time/TIMEOUT error
\* (exit 4); a connection failure that is not a timeout gives a
\* net/CONNECT_FAILED error (exit 2); any other request error gives a result
\* with healthy: false and exit code 0.
C29_HealthClassification ==
    HealthAnswered =>
        LET o == local.outcome
        IN /\ Cardinality(TerminalEvents) = 1
           /\ IF o.received
              THEN /\ LastEvent.type = "result"
                   /\ LastEvent.data.healthy <=> (200 <= o.status /\ o.status < 400)
              ELSE IF o.e.is_timeout
              THEN /\ LastEvent.type = "error"
                   /\ LastEvent.err.cat = "time"
                   /\ LastEvent.err.code = "TIMEOUT"
                   /\ status = 4
              ELSE IF o.e.is_connect
              THEN /\ LastEvent.type = "error"
                   /\ LastEvent.err.cat = "net"
                   /\ LastEvent.err.code = "CONNECT_FAILED"
                   /\ status = 2
              ELSE /\ LastEvent.type = "result"
                   /\ ~LastEvent.data.healthy
                   /\ pc = "exited" => status = 0

\* the preview of a body: all of it up to 200 bytes, else its first 200 bytes and "..."
Preview(body) ==
    IF ByteLen(body) <= 200 THEN body ELSE slice_to(body, 200) \o <<Run(".", 1, 3)>>

\* C30: for every response body service health completes with a result whose
\* body_preview is the whole body when the body is at most 200 bytes long and
\* otherwise the first 200 bytes of the body followed by "..."; computing the
\* preview never ends the process without a terminal event.
C30_BodyPreview ==
    (HealthAnswered /\ local.outcome.received) =>
        /\ TerminalEvents # {}
        /\ LastEvent.type = "result"
        /\ LastEvent.data.body_preview = Preview(local.outcome.body)
        /\ status \in {Running, 0}
====
